---------------------------- MODULE Spec2Model ----------------------------
(***************************************************************************)
(* rustero: the feed-acquisition pipeline.  A command chain (PodcastCmd)   *)
(* is walked by run_commands, which calls one PodcastAlgebra method of the *)
(* PodcastPipelineInterpreter per node and threads a CommandAccumulator    *)
(* (Result<PipelineData, PipelineError>) through the calls.                *)
(*                                                                         *)
(* Strings whose characters the code inspects (content types, body text)   *)
(* are sequences of one-character strings; URLs are opaque strings that    *)
(* the url crate's parser maps to a scheme and a host.                     *)
(***************************************************************************)
EXTENDS Naturals, Integers, Sequences, FiniteSets, TLC

---------------------------------------------------------------------------
(* Bounds of the model *)

\* longest command chain, counted in nodes before the terminal End
MaxChainLen == 2
\* most OPML entries in one batch (one sub-chain task per entry)
MaxEntries == 2

---------------------------------------------------------------------------
(* Option<T> is a sequence of length at most one, Result<T, E> a record *)

None == <<>>
Some(v) == <<v>>
IsSome(o) == Len(o) = 1
Unwrap(o) == o[1]

Ok(v) == [ok |-> TRUE, val |-> v]
Err(e) == [ok |-> FALSE, err |-> e]

---------------------------------------------------------------------------
(* str::to_lowercase and str::contains on character sequences *)

Upper == <<"A","B","C","D","E","F","G","H","I","J","K","L","M","N","O","P","Q","R","S","T","U","V","W","X","Y","Z">>
Lower == <<"a","b","c","d","e","f","g","h","i","j","k","l","m","n","o","p","q","r","s","t","u","v","w","x","y","z">>

LowerChar(c) ==
    IF \E i \in DOMAIN Upper : Upper[i] = c
    THEN Lower[CHOOSE i \in DOMAIN Upper : Upper[i] = c]
    ELSE c

to_lowercase(s) == [i \in DOMAIN s |-> LowerChar(s[i])]

contains(s, pat) ==
    \E i \in 0..(Len(s) - Len(pat)) : SubSeq(s, i + 1, i + Len(pat)) = pat

---------------------------------------------------------------------------
(* URLs and the url crate's parser on them *)

U_http  == "http://example.com/feed"
U_https == "https://feeds.example.org/rss"
U_ftp   == "ftp://example.com/feed"
U_bad   == "not a url"
\* two URLs whose hosts differ in one character, neither a letter, a digit,
\* a dot nor a hyphen
U_under == "http://my_feeds.example.com/rss"
U_tilde == "http://my~feeds.example.com/rss"

Urls == {U_http, U_https, U_ftp, U_bad}

\* Url::parse: a relative string without a base is a parse error; otherwise
\* the parsed URL gives its scheme and its host.
UrlParse(u) ==
    CASE u = U_http  -> Ok([scheme |-> "http",  host |-> <<"e","x","a","m","p","l","e",".","c","o","m">>])
      [] u = U_https -> Ok([scheme |-> "https", host |-> <<"f","e","e","d","s",".","e","x","a","m","p","l","e",".","o","r","g">>])
      [] u = U_ftp   -> Ok([scheme |-> "ftp",   host |-> <<"e","x","a","m","p","l","e",".","c","o","m">>])
      [] u = U_under -> Ok([scheme |-> "http",  host |-> <<"m","y","_","f","e","e","d","s",".","e","x","a","m","p","l","e",".","c","o","m">>])
      [] u = U_tilde -> Ok([scheme |-> "http",  host |-> <<"m","y","~","f","e","e","d","s",".","e","x","a","m","p","l","e",".","c","o","m">>])
      [] OTHER       -> Err("relative URL without a base")

---------------------------------------------------------------------------
(* errors.rs *)

\* DownloaderError::NetworkError, ::RssError, ::Failed, with their Display text
NetworkError(text) == [kind |-> "NetworkError", text |-> text]
RssError(text)     == [kind |-> "RssError", text |-> text]
Failed(text)       == [kind |-> "Failed", text |-> text]
IoError(text)      == [kind |-> "io::Error", text |-> text]
SerdeError(text)   == [kind |-> "serde_json::Error", text |-> text]

\* A PipelineError: its variant, the format string and arguments of its
\* message, and what std::error::Error::source() returns for it.
DownloadFailed(e) ==
    [kind |-> "DownloadFailed", fmt |-> "{0}", args |-> <<e.text>>, source |-> Some(e)]
SaveFailedWithMessage(fmt, args) ==
    [kind |-> "SaveFailedWithMessage", fmt |-> fmt, args |-> args, source |-> None]
\* a save failure that keeps the message and drops the cause
SaveFailedWithSource_drops_cause(fmt, args, e) ==
    SaveFailedWithMessage(fmt, args)

SaveFailedWithSource(fmt, args, e) ==
    [kind |-> "SaveFailedWithSource", fmt |-> fmt, args |-> args, source |-> Some(e)]
EvaluationFailed(fmt, args) ==
    [kind |-> "EvaluationFailed", fmt |-> fmt, args |-> args, source |-> None]
EvaluationFailedWithSource(fmt, args, e) ==
    [kind |-> "EvaluationFailedWithSource", fmt |-> fmt, args |-> args, source |-> Some(e)]
InvalidState(fmt) ==
    [kind |-> "InvalidState", fmt |-> fmt, args |-> <<>>, source |-> None]

---------------------------------------------------------------------------
(* podcast_algebra.rs: PipelineData and its Default *)

PipelineData(url, podcast, entries) ==
    [last_evaluated_url |-> url, current_podcast |-> podcast, opml_entries |-> entries]

DefaultPipelineData == PipelineData(None, None, None)

---------------------------------------------------------------------------
(* What a FeedFetcher can answer (podcast_download.rs) *)

CT_rss     == <<"a","p","p","l","i","c","a","t","i","o","n","/","r","s","s","+","x","m","l">>
CT_atom    == <<"A","p","p","l","i","c","a","t","i","o","n","/","A","t","o","m","+","X","M","L",";"," ","c","h","a","r","s","e","t","=","U","T","F","-","8">>
CT_xml     == <<"a","p","p","l","i","c","a","t","i","o","n","/","x","m","l">>
CT_textxml == <<"T","E","X","T","/","X","M","L">>
CT_html    == <<"t","e","x","t","/","h","t","m","l">>

ContentTypes == {CT_rss, CT_atom, CT_xml, CT_textxml, CT_html}

\* fetch_headers: the header map, keys lowercased by the fetcher
HeadersWithout == ("server" :> <<"n","g","i","n","x">>)
HeadersWith(ct) == ("content-type" :> ct) @@ HeadersWithout

HeadStatusError == Failed("HEAD request failed with status: 404 Not Found")
ConnectError == NetworkError("error sending request")

HeadOutcomes ==
    {Err(HeadStatusError), Ok(HeadersWithout)} \cup {Ok(HeadersWith(ct)) : ct \in ContentTypes}

B_rss  == <<"<","?","x","m","l","?",">","<","r","s","s",">">>
B_feed == <<"<","F","e","e","d",">">>
B_html == <<"<","h","t","m","l",">">>

PartialBodies == {B_rss, B_feed, B_html}

\* fetch_partial_content: the text of the answer to the range request
PartialOutcomes == {Err(ConnectError)} \cup {Ok(b) : b \in PartialBodies}

\* A fetcher call as it appears in a step's record of effects
\* (arg: the byte range of a partial GET, the value written or sent)
Call(op, target, arg, resp) == [op |-> op, target |-> target, arg |-> arg, resp |-> resp]
HeadCall(url, resp) == Call("HEAD", url, <<>>, resp)
PartialGetCall(url, range, resp) == Call("PARTIAL_GET", url, range, resp)
GetCall(url, resp) == Call("GET", url, <<>>, resp)

---------------------------------------------------------------------------
(* interpreter_helpers.rs *)

\* the byte range interpret_eval_url's partial GET asks for, inclusive
PartialRangeStart == 0
PartialRangeEnd == 4095

Validated == "Validated"
Inconclusive == "Inconclusive"

\* a check of the syntax alone, any scheme accepted
validate_url_syntax_only(url_str) ==
    LET parsed == UrlParse(url_str) IN
    IF ~parsed.ok
    THEN Err(EvaluationFailed("Invalid URL format for '{}': {}", <<url_str, parsed.err>>))
    ELSE Ok(parsed.val)

\* lines 13-33
validate_url_syntax_and_scheme(url_str) ==
    LET parsed == UrlParse(url_str) IN
    IF ~parsed.ok
    THEN Err(EvaluationFailed("Invalid URL format for '{}': {}", <<url_str, parsed.err>>))
    ELSE IF parsed.val.scheme # "http" /\ parsed.val.scheme # "https"
    THEN Err(EvaluationFailed("Invalid URL scheme for '{}': '{}'. Only http/https supported.",
                              <<url_str, parsed.val.scheme>>))
    ELSE Ok(parsed.val)

\* the comparison without content_type.to_lowercase()
IsFeedContentType_case_sensitive(content_type) ==
    \/ contains(content_type, <<"a","p","p","l","i","c","a","t","i","o","n","/","r","s","s","+","x","m","l">>)
    \/ contains(content_type, <<"a","p","p","l","i","c","a","t","i","o","n","/","a","t","o","m","+","x","m","l">>)
    \/ contains(content_type, <<"a","p","p","l","i","c","a","t","i","o","n","/","x","m","l">>)
    \/ contains(content_type, <<"t","e","x","t","/","x","m","l">>)

\* lines 41-46: the lowercased content type against the four feed types
IsFeedContentType(content_type) ==
    LET ct_lower == to_lowercase(content_type) IN
    \/ contains(ct_lower, <<"a","p","p","l","i","c","a","t","i","o","n","/","r","s","s","+","x","m","l">>)
    \/ contains(ct_lower, <<"a","p","p","l","i","c","a","t","i","o","n","/","a","t","o","m","+","x","m","l">>)
    \/ contains(ct_lower, <<"a","p","p","l","i","c","a","t","i","o","n","/","x","m","l">>)
    \/ contains(ct_lower, <<"t","e","x","t","/","x","m","l">>)

\* the fetcher's answer to fetch_headers is head_resp
try_validate_via_head(head_resp) ==
    IF head_resp.ok
    THEN IF "content-type" \in DOMAIN head_resp.val
         THEN IF IsFeedContentType(head_resp.val["content-type"])
              THEN Ok(Validated)
              ELSE Ok(Inconclusive)
         ELSE Ok(Inconclusive)
    ELSE Err(head_resp.err)

\* the sniff without partial_content.to_lowercase()
LooksLikeFeed_case_sensitive(partial_content) ==
    \/ contains(partial_content, <<"<","r","s","s">>)
    \/ contains(partial_content, <<"<","f","e","e","d">>)

\* lines 86-88
LooksLikeFeed(partial_content) ==
    \/ contains(to_lowercase(partial_content), <<"<","r","s","s">>)
    \/ contains(to_lowercase(partial_content), <<"<","f","e","e","d">>)

\* the fetcher's answer to fetch_partial_content(url, (0, 4095)) is partial_resp
try_validate_via_partial_get(partial_resp) ==
    IF partial_resp.ok
    THEN IF LooksLikeFeed(partial_resp.val)
         THEN Ok(Validated)
         ELSE Ok(Inconclusive)
    ELSE Err(partial_resp.err)

---------------------------------------------------------------------------
(* podcast_pipeline_interpreter.rs: interpret_eval_url.  An interpreter    *)
(* method is an operator from its arguments and the answers of its         *)
(* collaborators to the accumulator it returns and the effects it had.     *)

StepResult(acc, calls) == [acc |-> acc, calls |-> calls]

\* errors.rs lines 54-55
UpstreamError(e) ==
    [kind |-> "UpstreamError", fmt |-> "{0}", args |-> <<e.kind>>, source |-> Some(e)]

\* a method that hands on a failure re-wrapped as an upstream error
PropagateError_rewrapped(current_acc) ==
    StepResult(Err(UpstreamError(current_acc.err)), <<>>)

\* lines 80-82, 137-139, 169-171, 255-257: let Ok(..) = current_acc else
\* { return current_acc; }
PropagateError(current_acc) == StepResult(current_acc, <<>>)

\* an evaluation that keeps the podcast of an earlier download
RecordEvaluatedUrl_keeps_podcast(pipeline_data, url_to_eval) ==
    [pipeline_data EXCEPT !.last_evaluated_url = Some(url_to_eval)]

\* lines 93-97 and 114-118: what a validated URL does to the PipelineData
RecordEvaluatedUrl(pipeline_data, url_to_eval) ==
    [pipeline_data EXCEPT !.last_evaluated_url = Some(url_to_eval),
                          !.current_podcast = None]

\* lines 125-128: the error of a partial GET that failed in transport
PartialGetFailed(url_str, partial_get_downloader_error) ==
    EvaluationFailed("Failed to fetch partial content for URL evaluation of '{}': {}",
                     <<url_str, partial_get_downloader_error.text>>)

\* a partial GET stage that accepts whatever body it could fetch
EvalUrlPartialStage_lenient(pipeline_data, url_to_eval, partial_resp) ==
    IF partial_resp.ok
    THEN Ok(RecordEvaluatedUrl(pipeline_data, url_to_eval))
    ELSE Err(PartialGetFailed(url_to_eval, partial_resp.err))

\* lines 112-129: the partial GET stage, the final fallback
EvalUrlPartialStage(pipeline_data, url_to_eval, partial_resp) ==
    LET sniff == try_validate_via_partial_get(partial_resp) IN
    IF sniff.ok
    THEN IF sniff.val = Validated
         THEN Ok(RecordEvaluatedUrl(pipeline_data, url_to_eval))
         ELSE Err(EvaluationFailed(
                "URL content (first 4KB) of '{}' does not appear to be a valid RSS/Atom feed.",
                <<url_to_eval>>))
    ELSE Err(PartialGetFailed(url_to_eval, sniff.err))

interpret_eval_url(url_to_eval, current_acc, head_resp, partial_resp) ==
    IF ~current_acc.ok THEN PropagateError(current_acc)
    ELSE
    LET pipeline_data == current_acc.val
        syntax == validate_url_syntax_and_scheme(url_to_eval)
        head == try_validate_via_head(head_resp)
        head_call == HeadCall(url_to_eval, head_resp)
        partial_call ==
            PartialGetCall(url_to_eval, <<PartialRangeStart, PartialRangeEnd>>, partial_resp)
    IN
    IF ~syntax.ok THEN StepResult(Err(syntax.err), <<>>)
    ELSE IF head.ok /\ head.val = Validated
    THEN StepResult(Ok(RecordEvaluatedUrl(pipeline_data, url_to_eval)), <<head_call>>)
    ELSE StepResult(EvalUrlPartialStage(pipeline_data, url_to_eval, partial_resp),
                    <<head_call, partial_call>>)

---------------------------------------------------------------------------
(* podcast_download.rs and podcast_factory.rs: download_and_create_podcast *)

\* The bodies a full GET can return, with what rss::Channel::read_from makes
\* of each: a channel (its title and its items that make an episode) or an
\* RSS error.
Body_feed      == [text |-> "<rss><channel><title>Test Podcast</title>...", channel |-> Some([title |-> "Test Podcast", items |-> 2])]
Body_malformed == [text |-> "<?xml version=1.0?><rss><channel>", channel |-> None]

FeedBodies == {Body_feed, Body_malformed}

GetOutcomes == {Err(ConnectError)} \cup {Ok(b) : b \in FeedBodies}

\* a parser that makes an empty channel of a body it cannot read
ChannelReadFrom_lenient(content) ==
    IF IsSome(content.channel)
    THEN Ok(Unwrap(content.channel))
    ELSE Ok([title |-> "", items |-> 0])

\* Channel::read_from(content.as_bytes())
ChannelReadFrom(content) ==
    IF IsSome(content.channel)
    THEN Ok(Unwrap(content.channel))
    ELSE Err(RssError("reached end of input without finding a complete channel"))

\* a factory that does not take the title from the channel
create_podcast_untitled(channel, feed_url) ==
    Ok([url |-> feed_url, title |-> "Untitled", episodes |-> channel.items])

\* PodcastFactory::create_podcast with the default factory
create_podcast(channel, feed_url) ==
    Ok([url |-> feed_url, title |-> channel.title, episodes |-> channel.items])

\* the fetcher's answer to fetch(url) is get_resp
download_and_create_podcast(url, get_resp) ==
    IF ~get_resp.ok THEN Err(get_resp.err)
    ELSE LET channel == ChannelReadFrom(get_resp.val) IN
         IF ~channel.ok THEN Err(channel.err)
         ELSE create_podcast(channel.val, url)

---------------------------------------------------------------------------
(* podcast_pipeline_interpreter.rs: interpret_download *)

\* a download that always fetches the URL its command carries
UrlToUse_prefers_command(pipeline_data, explicit_url_from_command) ==
    explicit_url_from_command

\* lines 141-154: the evaluated URL if there is one, else the command's
UrlToUse(pipeline_data, explicit_url_from_command) ==
    IF IsSome(pipeline_data.last_evaluated_url)
    THEN Unwrap(pipeline_data.last_evaluated_url)
    ELSE explicit_url_from_command

\* a success record that leaves the evaluated URL in place
RecordDownload_keeps_url(pipeline_data, podcast_obj) ==
    [pipeline_data EXCEPT !.current_podcast = Some(podcast_obj)]

\* lines 163-165: the podcast is stored and the evaluated URL is consumed
RecordDownload(pipeline_data, podcast_obj) ==
    [pipeline_data EXCEPT !.current_podcast = Some(podcast_obj),
                          !.last_evaluated_url = None]

interpret_download(explicit_url_from_command, current_acc, get_resp) ==
    IF ~current_acc.ok THEN PropagateError(current_acc)
    ELSE
    LET pipeline_data == current_acc.val
        url_to_use == UrlToUse(pipeline_data, explicit_url_from_command)
        podcast_obj == download_and_create_podcast(url_to_use, get_resp)
        get_call == GetCall(url_to_use, get_resp)
    IN
    IF ~podcast_obj.ok
    THEN StepResult(Err(DownloadFailed(podcast_obj.err)), <<get_call>>)
    ELSE StepResult(Ok(RecordDownload(pipeline_data, podcast_obj.val)), <<get_call>>)

---------------------------------------------------------------------------
(* podcast_pipeline_interpreter.rs: generate_podcast_filename, interpret_save *)

PODCAST_DATA_DIR == "podcast_data"

\* DefaultHasher (SipHash-1-3, zero keys) of the URL string, as lower-case hex
calculate_url_hash(url_str) ==
    CASE url_str = U_http  -> <<"8","3","b","6","6","9","a","2","6","7","2","b","c","a","4","5">>
      [] url_str = U_https -> <<"9","1","e","d","5","b","b","f","0","7","8","e","7","d","a","9">>
      [] url_str = U_ftp   -> <<"1","9","a","7","0","6","5","8","4","7","2","d","a","a","c","e">>
      [] url_str = U_under -> <<"6","b","4","f","2","6","c","7","c","2","c","c","9","2","8","4">>
      [] url_str = U_tilde -> <<"e","2","e","f","d","6","3","d","3","1","c","8","a","a","a","c">>
      [] OTHER             -> <<"5","d","2","1","2","d","a","0","a","5","9","e","7","2","c","7">>

Digits == <<"0","1","2","3","4","5","6","7","8","9">>

\* char::is_alphanumeric on the characters a host can hold
IsAlphanumeric(c) ==
    \/ \E i \in DOMAIN Lower : Lower[i] = c
    \/ \E i \in DOMAIN Upper : Upper[i] = c
    \/ \E i \in DOMAIN Digits : Digits[i] = c

SanitizeHost(host) ==
    [i \in DOMAIN host |->
        IF ~IsAlphanumeric(host[i]) /\ host[i] # "." /\ host[i] # "-" THEN "_" ELSE host[i]]

\* a filename that does not depend on the URL
generate_podcast_filename_fixed(podcast_url) ==
    Ok(<<"p","o","d","c","a","s","t",".","j","s","o","n">>)

\* a filename generation that reports a bad URL as an ordering violation
generate_podcast_filename_invalid_state(podcast_url) ==
    LET parsed_url == UrlParse(podcast_url) IN
    IF ~parsed_url.ok
    THEN Err(InvalidState("Invalid URL format for filename generation"))
    ELSE Ok(SanitizeHost(parsed_url.val.host) \o <<"-">> \o calculate_url_hash(podcast_url)
                \o <<".","j","s","o","n">>)

\* lines 53-71
generate_podcast_filename(podcast_url) ==
    LET parsed_url == UrlParse(podcast_url) IN
    IF ~parsed_url.ok
    THEN Err(SaveFailedWithMessage("Invalid URL format for filename generation ('{}'): {}",
                                   <<podcast_url, parsed_url.err>>))
    ELSE Ok(SanitizeHost(parsed_url.val.host) \o <<"-">> \o calculate_url_hash(podcast_url)
                \o <<".","j","s","o","n">>)

\* What the file system, the serializer and the event bus answer to one Save
SaveEnvs ==
    [create_dir : {Ok("()"), Err(IoError("permission denied"))},
     serialize  : {Ok("json"), Err(SerdeError("key must be a string"))},
     write      : {Ok("()"), Err(IoError("no space left on device"))}]

SendError == [kind |-> "SendError", text |-> "channel closed"]

CreateDirCall(resp) == Call("CREATE_DIR", PODCAST_DATA_DIR, <<>>, resp)
WriteCall(filename, podcast, resp) == Call("WRITE", filename, podcast, resp)
\* broadcast::Sender::send fails exactly when no receiver is subscribed
PublishCall(podcast, receivers) ==
    Call("PUBLISH", "PodcastReadyForApp", podcast,
         IF receivers > 0 THEN Ok(receivers) ELSE Err(SendError))

\* a Save that fails when nobody is subscribed to the channel
AfterWrite_publish_fatal(data, podcast_to_save, receivers, done) ==
    IF receivers > 0
    THEN StepResult(Ok(data), Append(done, PublishCall(podcast_to_save, receivers)))
    ELSE StepResult(Err(SaveFailedWithMessage("Failed to send PodcastReadyForApp event", <<>>)),
                    Append(done, PublishCall(podcast_to_save, receivers)))

\* a Save that writes the file and sends no event
AfterWrite_silent(data, podcast_to_save, receivers, done) == StepResult(Ok(data), done)

\* lines 211-232: fs::write returned Ok: send the event, log a send error,
\* return Ok(data); done holds the calls made so far
AfterWrite(data, podcast_to_save, receivers, done) ==
    StepResult(Ok(data), Append(done, PublishCall(podcast_to_save, receivers)))

\* lines 168-248
interpret_save(current_acc, env, receivers) ==
    IF ~current_acc.ok THEN PropagateError(current_acc)
    ELSE
    LET data == current_acc.val IN
    IF ~IsSome(data.current_podcast)
    THEN StepResult(Err(InvalidState("Save called without a podcast in accumulator")), <<>>)
    ELSE
    LET podcast_to_save == Unwrap(data.current_podcast)
        filename == generate_podcast_filename(podcast_to_save.url)
        mkdir == CreateDirCall(env.create_dir)
    IN
    IF ~filename.ok THEN StepResult(Err(filename.err), <<>>)
    ELSE IF ~env.create_dir.ok
    THEN StepResult(Err(SaveFailedWithSource("Failed to create podcast data directory '{}'",
                                             <<PODCAST_DATA_DIR>>, env.create_dir.err)),
                    <<mkdir>>)
    ELSE IF ~env.serialize.ok
    THEN StepResult(Err(SaveFailedWithSource("Serialization failed for '{}'",
                                             <<podcast_to_save.title>>, env.serialize.err)),
                    <<mkdir>>)
    ELSE IF ~env.write.ok
    THEN StepResult(Err(SaveFailedWithSource("Failed to write podcast '{}' to disk at '{}'",
                                             <<podcast_to_save.title, filename.val>>,
                                             env.write.err)),
                    <<mkdir, WriteCall(filename.val, podcast_to_save, env.write)>>)
    ELSE AfterWrite(data, podcast_to_save, receivers,
                    <<mkdir, WriteCall(filename.val, podcast_to_save, env.write)>>)

---------------------------------------------------------------------------
(* opml_parser.rs as the pipeline sees it: parse_opml_from_file gives a    *)
(* list of OpmlFeedEntry or an OpmlParseError                              *)

EntryUrls == <<U_http, U_https, U_ftp>>
EntryTitles == <<"Developer Voices", "GOTO - The Brightest Minds in Tech", "Test Feed 3">>

\* the i-th entry of an OPML document
EntryAt(i) ==
    [title |-> EntryTitles[((i - 1) % Len(EntryTitles)) + 1],
     xml_url |-> EntryUrls[((i - 1) % Len(EntryUrls)) + 1],
     html_url |-> None]

EntryLists == {[i \in 1..n |-> EntryAt(i)] : n \in 0..MaxEntries}

OPML_PATH == "feeds.opml"

FileReadError == [kind |-> "FileReadError", text |-> "Failed to read OPML file: No such file or directory"]
MissingXmlUrl == [kind |-> "MissingXmlUrl", text |-> "Outline item is missing required 'xmlUrl' attribute for a feed"]

OpmlParseOutcomes == {Err(FileReadError), Err(MissingXmlUrl)} \cup {Ok(l) : l \in EntryLists}

ReadOpmlCall(file_path, resp) == Call("READ_OPML", file_path, <<>>, resp)

---------------------------------------------------------------------------
(* podcast_pipeline_interpreter.rs: interpret_load_opml_file,              *)
(* interpret_process_opml_entries, interpret_end                           *)

\* a step that puts the list into a fresh PipelineData
StoreEntries_fresh(pipeline_data, entries) ==
    [DefaultPipelineData EXCEPT !.opml_entries = Some(entries)]

\* line 272: pipeline_data.opml_entries = Some(entries)
StoreEntries(pipeline_data, entries) ==
    [pipeline_data EXCEPT !.opml_entries = Some(entries)]

\* parse_opml_from_file(file_path) answers parse_resp
interpret_load_opml_file(file_path, current_acc, parse_resp) ==
    IF ~current_acc.ok THEN PropagateError(current_acc)
    ELSE
    LET pipeline_data == current_acc.val IN
    IF ~parse_resp.ok
    THEN StepResult(Err(EvaluationFailedWithSource("Failed to parse OPML file '{}': {}",
                                                   <<file_path, parse_resp.err.text>>,
                                                   Failed(parse_resp.err.text))),
                    <<ReadOpmlCall(file_path, parse_resp)>>)
    ELSE StepResult(Ok(StoreEntries(pipeline_data, parse_resp.val)),
                    <<ReadOpmlCall(file_path, parse_resp)>>)

\* a choice that falls back to the command's entries when the accumulator's
\* list is empty
EntriesToProcess_skips_empty(data, feed_entries_to_process) ==
    IF IsSome(data.opml_entries) /\ Unwrap(data.opml_entries) # <<>>
    THEN Unwrap(data.opml_entries)
    ELSE feed_entries_to_process

\* lines 286-293: the accumulator's entries if it holds any, else the command's
EntriesToProcess(data, feed_entries_to_process) ==
    IF IsSome(data.opml_entries)
    THEN Unwrap(data.opml_entries)
    ELSE feed_entries_to_process

\* a step that reads the entries and leaves them in the accumulator
AfterTake_keeps_entries(data) == data

\* line 287: Option::take leaves None behind
AfterTake(data) == [data EXCEPT !.opml_entries = None]

\* an End step that swallows a failure and hands back an empty success
interpret_end_swallows_error(final_acc) ==
    IF final_acc.ok THEN StepResult(final_acc, <<>>)
    ELSE StepResult(Ok(DefaultPipelineData), <<>>)

\* an End step that hands back the accumulator without its podcast
interpret_end_clears_podcast(final_acc) ==
    IF final_acc.ok
    THEN StepResult(Ok([final_acc.val EXCEPT !.current_podcast = None]), <<>>)
    ELSE StepResult(final_acc, <<>>)

\* lines 359-362
interpret_end(final_acc) == StepResult(final_acc, <<>>)

---------------------------------------------------------------------------
(* podcast_commands.rs: PodcastCmd.  A chain is the sequence of its nodes, *)
(* each node's next being the node after it; End is the last node.         *)

EvalUrl(url) == [tag |-> "EvalUrl", url |-> url]
Download(url) == [tag |-> "Download", url |-> url]
Save == [tag |-> "Save"]
LoadOpmlFile(path) == [tag |-> "LoadOpmlFile", path |-> path]
ProcessOpmlEntries(entries) == [tag |-> "ProcessOpmlEntries", entries |-> entries]
End == [tag |-> "End"]

DownloadUrls == {U_https, U_bad, U_under}

NonTerminalCmds ==
    {EvalUrl(u) : u \in Urls} \cup {Download(u) : u \in DownloadUrls}
        \cup {Save, LoadOpmlFile(OPML_PATH)}
        \cup {ProcessOpmlEntries(l) : l \in EntryLists}

\* longer programs a caller can build with the same constructors
ScenarioChains ==
    {<<EvalUrl(U_http), Download(U_https), Download(U_under), End>>,
     <<Download(U_https), EvalUrl(U_http), Save, End>>}

Chains ==
    UNION {{prefix \o <<End>> : prefix \in [1..n -> NonTerminalCmds]} : n \in 0..MaxChainLen}
        \cup ScenarioChains

\* lines 310-318: the sub-chain of one OPML entry
SubChain(entry) ==
    <<EvalUrl(entry.xml_url), Download(entry.xml_url), Save, End>>

\* the PodcastAlgebra method run_commands calls for a node
MethodOf(cmd) ==
    CASE cmd.tag = "EvalUrl" -> "interpret_eval_url"
      [] cmd.tag = "Download" -> "interpret_download"
      [] cmd.tag = "Save" -> "interpret_save"
      [] cmd.tag = "LoadOpmlFile" -> "interpret_load_opml_file"
      [] cmd.tag = "ProcessOpmlEntries" -> "interpret_process_opml_entries"
      [] cmd.tag = "End" -> "interpret_end"

\* lines 281-301 and 356: which sub-chains the step launches (none on an
\* error accumulator or an empty list) and the accumulator it returns
\* a batch step that treats an empty list as an ordering violation
ProcessOpmlPlan_error_on_empty(feed_entries_to_process, current_acc) ==
    IF ~current_acc.ok
    THEN [launch |-> <<>>, acc |-> current_acc]
    ELSE IF EntriesToProcess(current_acc.val, feed_entries_to_process) = <<>>
    THEN [launch |-> <<>>, acc |-> Err(InvalidState("No OPML feed entries to process"))]
    ELSE [launch |-> EntriesToProcess(current_acc.val, feed_entries_to_process),
          acc |-> Ok(AfterTake(current_acc.val))]

ProcessOpmlPlan(feed_entries_to_process, current_acc) ==
    IF ~current_acc.ok
    THEN [launch |-> <<>>, acc |-> current_acc]
    ELSE [launch |-> EntriesToProcess(current_acc.val, feed_entries_to_process),
          acc |-> Ok(AfterTake(current_acc.val))]

SpawnCall(entry) == Call("SPAWN", entry.xml_url, <<>>, Ok("JoinHandle"))

---------------------------------------------------------------------------
(* The state: the task of the top-level run_commands (Main) and one task   *)
(* per OPML entry of the batch in flight, the podcast data directory and   *)
(* the broadcast channel.                                                  *)

Main == 0
SubTasks == 1..MaxEntries
Tasks == {Main} \cup SubTasks

InitialAccs == {Ok(DefaultPipelineData), Err(EvaluationFailed("an earlier chain failed", <<>>))}

VARIABLES
    chain,         \* per task: command, the chain run_commands walks
    pc,            \* per task: current_cmd_node, as an index into chain
    acc,           \* per task: current_acc
    initial_accumulator, \* per task: the accumulator run_commands was given
    phase,         \* per task: "unspawned", "running", "joining" or "returned"
    invoked,       \* per task: the interpreter calls made so far, in order
    calls,         \* per task: the effects of the task's latest step, in order
    held,          \* Main: the accumulator kept across join_all(tasks).await
    join_results,  \* the JoinHandle<bool> values of the latest batch
    files,         \* podcast_data: a set of [name, content]
    events,        \* the events sent on the broadcast channel, in order
    receivers,     \* the number of subscribed receivers of the channel
    cli,           \* main: the parsed Args, where main stands, the error it exits with
    wire,          \* HttpFeedFetcher: the latest request and what the server answered
    app,           \* App: its fields, and how many events its receiver has taken
    scroll,        \* ScrollableParagraphState: App's show_notes_state
    applied        \* the latest call of a function of the library: arguments and results

\* what lies outside the pipeline and main
app_vars == <<app, scroll, applied>>

vars == <<chain, pc, acc, initial_accumulator, phase, invoked, calls, held, join_results, files, events, receivers, cli, wire, app_vars>>

\* no App has been created
NoApp == <<>>

\* no ScrollableParagraphState has been created
NoScroll == <<>>

\* no function has been called
NoCall == <<>>

Idle == app = NoApp /\ scroll = NoScroll /\ applied = NoCall

\* run_commands called by a caller other than main
NotMain == [import_opml_file |-> None, headless |-> FALSE, at |-> "library", error |-> None]

\* no request of the live fetcher is on record
NoExchange == <<>>

Init ==
    /\ \E c \in Chains : chain = [t \in Tasks |-> IF t = Main THEN c ELSE <<>>]
    /\ pc = [t \in Tasks |-> 1]
    /\ \E a \in InitialAccs : acc = [t \in Tasks |-> IF t = Main THEN a ELSE Ok(DefaultPipelineData)]
    /\ initial_accumulator = acc
    /\ phase = [t \in Tasks |-> IF t = Main THEN "running" ELSE "unspawned"]
    /\ invoked = [t \in Tasks |-> <<>>]
    /\ calls = [t \in Tasks |-> <<>>]
    /\ held = None
    /\ join_results = <<>>
    /\ files = {}
    /\ events = <<>>
    /\ receivers \in {0, 1}
    /\ cli = NotMain
    /\ wire = NoExchange
    /\ Idle

\* fs::write(path, contents): create or replace the file of that name
FilesAfter(fs, step_calls) ==
    LET writes == {i \in DOMAIN step_calls : step_calls[i].op = "WRITE" /\ step_calls[i].resp.ok} IN
    IF writes = {} THEN fs
    ELSE LET w == step_calls[CHOOSE i \in writes : TRUE] IN
         {f \in fs : f.name # w.target} \cup {[name |-> w.target, content |-> w.arg]}

\* event_tx.send(AppEvent::PodcastReadyForApp {podcast, ..})
EventsAfter(ev, step_calls) ==
    LET sends == {i \in DOMAIN step_calls : step_calls[i].op = "PUBLISH" /\ step_calls[i].resp.ok} IN
    IF sends = {} THEN ev
    ELSE Append(ev, [kind |-> "PodcastReadyForApp",
                     podcast |-> step_calls[CHOOSE i \in sends : TRUE].arg])

Invocation(method, given, returned) ==
    [method |-> method, given |-> given, returned |-> returned]

\* a runner that leaves the chain as soon as a method returns an error
NextCmdNode_abandons_on_error(t, returned) ==
    IF returned.ok THEN pc[t] + 1 ELSE Len(chain[t]) + 1

\* a runner that jumps to the End node as soon as a method returns an error
NextCmdNode_short_circuit(t, returned) ==
    IF returned.ok THEN pc[t] + 1 ELSE Len(chain[t])

\* podcast_algebra.rs lines 69, 73, 77, 81, 85: current_cmd_node = next_cmd,
\* whatever the accumulator the method returned
NextCmdNode(t, returned) == pc[t] + 1

\* podcast_algebra.rs lines 66-86: one turn of run_commands' loop at a node
\* that is not End: current_acc = algebra.<method>(.., current_acc).await;
\* current_cmd_node = next_cmd
Advance(t, method, result) ==
    /\ acc' = [acc EXCEPT ![t] = result.acc]
    /\ pc' = [pc EXCEPT ![t] = NextCmdNode(t, result.acc)]
    /\ invoked' = [invoked EXCEPT ![t] = Append(@, Invocation(method, acc[t], result.acc))]
    /\ calls' = [calls EXCEPT ![t] = result.calls]
    /\ files' = FilesAfter(files, result.calls)
    /\ events' = EventsAfter(events, result.calls)

AtNode(t, tag) ==
    /\ phase[t] = "running"
    /\ pc[t] \in DOMAIN chain[t]
    /\ chain[t][pc[t]].tag = tag

RunEvalUrl(t) ==
    /\ AtNode(t, "EvalUrl")
    /\ \E head_resp \in HeadOutcomes, partial_resp \in PartialOutcomes :
          Advance(t, "interpret_eval_url",
                  interpret_eval_url(chain[t][pc[t]].url, acc[t], head_resp, partial_resp))
    /\ UNCHANGED <<chain, initial_accumulator, phase, held, join_results, receivers, cli, wire, app_vars>>

RunDownload(t) ==
    /\ AtNode(t, "Download")
    /\ \E get_resp \in GetOutcomes :
          Advance(t, "interpret_download",
                  interpret_download(chain[t][pc[t]].url, acc[t], get_resp))
    /\ UNCHANGED <<chain, initial_accumulator, phase, held, join_results, receivers, cli, wire, app_vars>>

RunSave(t) ==
    /\ AtNode(t, "Save")
    /\ \E env \in SaveEnvs :
          Advance(t, "interpret_save", interpret_save(acc[t], env, receivers))
    /\ UNCHANGED <<chain, initial_accumulator, phase, held, join_results, receivers, cli, wire, app_vars>>

RunLoadOpmlFile(t) ==
    /\ AtNode(t, "LoadOpmlFile")
    /\ \E parse_resp \in OpmlParseOutcomes :
          Advance(t, "interpret_load_opml_file",
                  interpret_load_opml_file(chain[t][pc[t]].path, acc[t], parse_resp))
    /\ UNCHANGED <<chain, initial_accumulator, phase, held, join_results, receivers, cli, wire, app_vars>>

\* sub-chains that are started on the accumulator of the batch step
InitialSubAcc_shares_parent == acc[Main]

\* line 328: initial_sub_acc
InitialSubAcc == Ok(DefaultPipelineData)

\* interpret_process_opml_entries up to join_all(tasks).await: it returns at
\* once on an error accumulator or an empty list, and otherwise spawns one
\* task per entry, each running run_commands on the entry's sub-chain from
\* Ok(PipelineData::default()), and waits.
RunProcessOpmlEntries ==
    /\ AtNode(Main, "ProcessOpmlEntries")
    /\ LET plan == ProcessOpmlPlan(chain[Main][pc[Main]].entries, acc[Main])
           n == Len(plan.launch)
       IN
       IF n = 0
       THEN /\ Advance(Main, "interpret_process_opml_entries", StepResult(plan.acc, <<>>))
            /\ UNCHANGED <<chain, initial_accumulator, phase, held, join_results, receivers, cli, wire, app_vars>>
       ELSE /\ chain' = [t \in Tasks |-> IF t \in 1..n THEN SubChain(plan.launch[t]) ELSE chain[t]]
            /\ phase' = [t \in Tasks |-> IF t = Main THEN "joining"
                                         ELSE IF t \in 1..n THEN "running" ELSE phase[t]]
            /\ acc' = [t \in Tasks |-> IF t \in 1..n THEN InitialSubAcc ELSE acc[t]]
            /\ initial_accumulator' =
                   [t \in Tasks |-> IF t \in 1..n THEN InitialSubAcc
                                    ELSE initial_accumulator[t]]
            /\ pc' = [t \in Tasks |-> IF t \in 1..n THEN 1 ELSE pc[t]]
            /\ invoked' = [t \in Tasks |-> IF t \in 1..n THEN <<>> ELSE invoked[t]]
            /\ calls' = [t \in Tasks |->
                            IF t = Main THEN [i \in 1..n |-> SpawnCall(plan.launch[i])]
                            ELSE IF t \in 1..n THEN <<>> ELSE calls[t]]
            /\ held' = Some(plan.acc)
            /\ UNCHANGED <<join_results, files, events, receivers, cli, wire, app_vars>>

\* a task closure that reports success whatever its sub-chain returned
SubOutcome_always_true(sub_result) == TRUE

\* lines 337-351: the task logs the failure or the success of its sub-chain
\* and returns false or true
SubOutcome(sub_result) == sub_result.ok

\* an await that completes with the first task to finish
JoinReady_first_finished == \E t \in SubTasks : phase[t] = "returned"

\* line 355: join_all(tasks) is ready when every task spawned has finished
JoinReady == \A t \in SubTasks : phase[t] \in {"unspawned", "returned"}

\* join_all(tasks).await completes when every spawned task has finished;
\* the step then returns Ok(data) and run_commands moves on.  The tasks'
\* closures return whether their sub-chain ended in Ok.
JoinAll ==
    /\ phase[Main] = "joining"
    /\ JoinReady
    /\ LET spawned == {t \in SubTasks : phase[t] = "returned"} IN
       join_results' = [i \in 1..Cardinality(spawned) |-> SubOutcome(acc[i])]
    /\ acc' = [t \in Tasks |-> IF t = Main THEN Unwrap(held) ELSE Ok(DefaultPipelineData)]
    /\ pc' = [t \in Tasks |-> IF t = Main THEN NextCmdNode(Main, Unwrap(held)) ELSE 1]
    /\ invoked' = [t \in Tasks |->
                     IF t = Main
                     THEN Append(invoked[Main],
                                 Invocation("interpret_process_opml_entries", acc[Main], Unwrap(held)))
                     ELSE <<>>]
    /\ calls' = [t \in Tasks |-> IF t = Main THEN calls[Main] ELSE <<>>]
    /\ chain' = [t \in Tasks |-> IF t = Main THEN chain[Main] ELSE <<>>]
    /\ phase' = [t \in Tasks |-> IF t = Main THEN "running" ELSE "unspawned"]
    /\ held' = None
    /\ UNCHANGED <<initial_accumulator, files, events, receivers, cli, wire, app_vars>>

\* podcast_algebra.rs lines 88-94: the End node: interpret_end, break, and
\* run_commands returns current_acc
RunEnd(t) ==
    /\ AtNode(t, "End")
    /\ LET result == interpret_end(acc[t]) IN
       /\ acc' = [acc EXCEPT ![t] = result.acc]
       /\ invoked' = [invoked EXCEPT ![t] = Append(@, Invocation("interpret_end", acc[t], result.acc))]
       /\ calls' = [calls EXCEPT ![t] = result.calls]
    /\ phase' = [phase EXCEPT ![t] = "returned"]
    /\ UNCHANGED <<chain, pc, initial_accumulator, held, join_results, files, events, receivers, cli, wire, app_vars>>

Next ==
    \/ \E t \in Tasks : RunEvalUrl(t)
    \/ \E t \in Tasks : RunDownload(t)
    \/ \E t \in Tasks : RunSave(t)
    \/ \E t \in Tasks : RunLoadOpmlFile(t)
    \/ RunProcessOpmlEntries
    \/ JoinAll
    \/ \E t \in Tasks : RunEnd(t)

Spec == Init /\ [][Next]_vars

\* every interpreter call returns and every spawned task is scheduled: a
\* step that can be taken is taken
FairSpec == Spec /\ WF_vars(Next)

---------------------------------------------------------------------------
(* main.rs: main, from the parsed Args to the exit or the start of the UI *)

\* lines 99-105: load_opml_file(opml_path, process_opml_entries(vec![], end()))
ImportChain(opml_path) ==
    <<LoadOpmlFile(opml_path), ProcessOpmlEntries(<<>>), End>>

\* a main that goes on whatever the import returned
AfterImport_ignores_error(import_result, headless) ==
    IF headless
    THEN [at |-> "exit_success", error |-> None]
    ELSE [at |-> "ui", error |-> None]

\* lines 111-123: return Err(anyhow!(e)) on an import error; otherwise
\* return Ok(()) when headless, and fall through to the UI when not
AfterImport(import_result, headless) ==
    IF ~import_result.ok
    THEN [at |-> "exit_failure", error |-> Some(import_result.err)]
    ELSE IF headless
    THEN [at |-> "exit_success", error |-> None]
    ELSE [at |-> "ui", error |-> None]

\* lines 84-92: Args::parse(), the channel with its one receiver
\* app_event_rx, the interpreter
MainInit ==
    /\ \E p \in {None, Some(OPML_PATH)}, h \in BOOLEAN :
          cli = [import_opml_file |-> p, headless |-> h, at |-> "start", error |-> None]
    /\ chain = [t \in Tasks |-> <<>>]
    /\ pc = [t \in Tasks |-> 1]
    /\ acc = [t \in Tasks |-> Ok(DefaultPipelineData)]
    /\ initial_accumulator = acc
    /\ phase = [t \in Tasks |-> "unspawned"]
    /\ invoked = [t \in Tasks |-> <<>>]
    /\ calls = [t \in Tasks |-> <<>>]
    /\ held = None
    /\ join_results = <<>>
    /\ files = {}
    /\ events = <<>>
    /\ receivers = 1
    /\ wire = NoExchange
    /\ Idle

\* lines 95-109: with an import path, main calls run_commands on the
\* import chain from Ok(PipelineData::default())
MainRunImport ==
    /\ cli.at = "start"
    /\ IsSome(cli.import_opml_file)
    /\ chain' = [chain EXCEPT ![Main] = ImportChain(Unwrap(cli.import_opml_file))]
    /\ phase' = [phase EXCEPT ![Main] = "running"]
    /\ acc' = [acc EXCEPT ![Main] = Ok(DefaultPipelineData)]
    /\ initial_accumulator' = [initial_accumulator EXCEPT ![Main] = Ok(DefaultPipelineData)]
    /\ cli' = [cli EXCEPT !.at = "import"]
    /\ UNCHANGED <<pc, invoked, calls, held, join_results, files, events, receivers, wire, app_vars>>

\* lines 111-123: run_commands has returned import_result
MainAfterImport ==
    /\ cli.at = "import"
    /\ phase[Main] = "returned"
    /\ LET after == AfterImport(acc[Main], cli.headless) IN
       cli' = [cli EXCEPT !.at = after.at, !.error = after.error]
    /\ UNCHANGED <<chain, pc, acc, initial_accumulator, phase, invoked, calls, held,
                   join_results, files, events, receivers, wire, app_vars>>

\* lines 95, 126-283: without an import path main goes straight to
\* App::new, the podcasts on disk and app::start_ui
MainStartUi ==
    /\ cli.at = "start"
    /\ ~IsSome(cli.import_opml_file)
    /\ cli' = [cli EXCEPT !.at = "ui"]
    /\ UNCHANGED <<chain, pc, acc, initial_accumulator, phase, invoked, calls, held,
                   join_results, files, events, receivers, wire, app_vars>>

MainNext ==
    \/ MainRunImport
    \/ MainAfterImport
    \/ MainStartUi
    \/ Next

\* the program main.rs builds: the pipeline run from main
MainSpec == MainInit /\ [][MainNext]_vars

---------------------------------------------------------------------------
(* podcast_download.rs: HttpFeedFetcher, the live fetcher, as a function of *)
(* what comes back for the request it sends                                *)

\* the status codes a server is taken to answer with
Statuses == {200, 206, 404, 500}

\* StatusCode's Display: the code and its canonical reason
StatusDisplay(status) ==
    CASE status = 200 -> "200 OK"
      [] status = 206 -> "206 Partial Content"
      [] status = 404 -> "404 Not Found"
      [] OTHER        -> "500 Internal Server Error"

\* StatusCode::is_success: 200..=299
is_success(status) == status \in 200..299

\* reqwest::StatusCode::PARTIAL_CONTENT
PARTIAL_CONTENT == 206

\* a header of the response as it arrives: its name, its value, and
\* whether HeaderValue::to_str accepts the value (visible ASCII only)
Header(name, value, visible) == [name |-> name, value |-> value, visible |-> visible]

H_server == Header(<<"S","e","r","v","e","r">>, <<"n","g","i","n","x">>, TRUE)
H_content_type(ct) == Header(<<"C","o","n","t","e","n","t","-","T","y","p","e">>, ct, TRUE)
H_opaque == Header(<<"C","o","n","t","e","n","t","-","T","y","p","e">>, <<"?">>, FALSE)

HeaderSamples ==
    {<<H_server>>, <<H_content_type(CT_rss), H_server>>,
     <<H_content_type(CT_html), H_server>>, <<H_opaque, H_server>>}

\* key.as_str().to_lowercase(), as the String that keys the map
HeaderKey(name) ==
    IF to_lowercase(name) = <<"c","o","n","t","e","n","t","-","t","y","p","e">>
    THEN "content-type"
    ELSE "server"

\* lines 88-94: the map of the headers whose value to_str accepts
HeadersMap(headers) ==
    LET kept == {i \in DOMAIN headers : headers[i].visible} IN
    [k \in {HeaderKey(headers[i].name) : i \in kept} |->
        headers[CHOOSE i \in kept : HeaderKey(headers[i].name) = k].value]

BodyReadError == NetworkError("error decoding response body")

\* the page a server sends with a 404
Body_not_found == [text |-> "<html><body>404 Not Found</body></html>", channel |-> None]

\* send() fails, or a response arrives: a status, headers, and a body that
\* text() reads or fails to read
SendFailure == [sent |-> FALSE, status |-> 0, headers |-> <<>>, body |-> Err(ConnectError)]

ServerAnswers(bodies) ==
    {SendFailure} \cup
    {[sent |-> TRUE, status |-> s, headers |-> h, body |-> b] :
        s \in Statuses, h \in HeaderSamples,
        b \in {Ok(x) : x \in bodies} \cup {Err(BodyReadError)}}

\* lines 65-76: fetch: get(url).send() and text(), each error mapped to
\* NetworkError; the status is not looked at
HttpFetch(answer) ==
    IF ~answer.sent THEN Err(ConnectError)
    ELSE IF ~answer.body.ok THEN Err(answer.body.err)
    ELSE Ok(answer.body.val)

HeadStatusFailure(status) ==
    CASE status = 404 -> Failed("HEAD request failed with status: 404 Not Found")
      [] OTHER        -> Failed("HEAD request failed with status: 500 Internal Server Error")

\* lines 78-95: fetch_headers
HttpFetchHeaders(answer) ==
    IF ~answer.sent THEN Err(ConnectError)
    ELSE IF ~is_success(answer.status) THEN Err(HeadStatusFailure(answer.status))
    ELSE Ok(HeadersMap(answer.headers))

PartialStatusFailure(status) ==
    CASE status = 404 -> Failed("Partial GET request failed with status: 404 Not Found")
      [] OTHER        -> Failed("Partial GET request failed with status: 500 Internal Server Error")

\* lines 97-120: fetch_partial_content
HttpFetchPartialContent(answer) ==
    IF ~answer.sent THEN Err(ConnectError)
    ELSE IF ~is_success(answer.status) /\ answer.status # PARTIAL_CONTENT
    THEN Err(PartialStatusFailure(answer.status))
    ELSE IF ~answer.body.ok THEN Err(answer.body.err)
    ELSE Ok(answer.body.val)

\* one request of the fetcher, what came back and what the fetcher returned
Exchange(op, url, range, answer, resp) ==
    <<[op |-> op, url |-> url, range |-> range, answer |-> answer, resp |-> resp]>>

FetcherUrls == {U_http, U_https}

\* HttpFeedFetcher::new(): no request made, no pipeline running
FetcherInit ==
    /\ wire = NoExchange
    /\ Idle
    /\ cli = NotMain
    /\ chain = [t \in Tasks |-> <<>>]
    /\ pc = [t \in Tasks |-> 1]
    /\ acc = [t \in Tasks |-> Ok(DefaultPipelineData)]
    /\ initial_accumulator = acc
    /\ phase = [t \in Tasks |-> "unspawned"]
    /\ invoked = [t \in Tasks |-> <<>>]
    /\ calls = [t \in Tasks |-> <<>>]
    /\ held = None
    /\ join_results = <<>>
    /\ files = {}
    /\ events = <<>>
    /\ receivers = 0

Fetch ==
    /\ \E url \in FetcherUrls, answer \in ServerAnswers(FeedBodies \cup {Body_not_found}) :
          wire' = Exchange("GET", url, <<>>, answer, HttpFetch(answer))
    /\ UNCHANGED <<chain, pc, acc, initial_accumulator, phase, invoked, calls, held,
                   join_results, files, events, receivers, cli, app_vars>>

FetchHeaders ==
    /\ \E url \in FetcherUrls, answer \in ServerAnswers({<<>>}) :
          wire' = Exchange("HEAD", url, <<>>, answer, HttpFetchHeaders(answer))
    /\ UNCHANGED <<chain, pc, acc, initial_accumulator, phase, invoked, calls, held,
                   join_results, files, events, receivers, cli, app_vars>>

FetchPartialContent ==
    /\ \E url \in FetcherUrls, answer \in ServerAnswers(PartialBodies) :
          wire' = Exchange("PARTIAL_GET", url, <<PartialRangeStart, PartialRangeEnd>>,
                           answer, HttpFetchPartialContent(answer))
    /\ UNCHANGED <<chain, pc, acc, initial_accumulator, phase, invoked, calls, held,
                   join_results, files, events, receivers, cli, app_vars>>

FetcherNext ==
    \/ Fetch
    \/ FetchHeaders
    \/ FetchPartialContent

\* the live fetcher on its own, one request after another
FetcherSpec == FetcherInit /\ [][FetcherNext]_vars

---------------------------------------------------------------------------
\* the variables of the pipeline, of main and of the live fetcher
pipeline_vars ==
    <<chain, pc, acc, initial_accumulator, phase, invoked, calls, held, join_results,
      files, events, receivers, cli, wire>>

\* no pipeline runs and nothing is on disk
NoPipeline ==
    /\ wire = NoExchange
    /\ cli = NotMain
    /\ chain = [t \in Tasks |-> <<>>]
    /\ pc = [t \in Tasks |-> 1]
    /\ acc = [t \in Tasks |-> Ok(DefaultPipelineData)]
    /\ initial_accumulator = acc
    /\ phase = [t \in Tasks |-> "unspawned"]
    /\ invoked = [t \in Tasks |-> <<>>]
    /\ calls = [t \in Tasks |-> <<>>]
    /\ held = None
    /\ join_results = <<>>
    /\ files = {}
    /\ events = <<>>
    /\ receivers = 0

---------------------------------------------------------------------------
(* podcast.rs: PodcastURL and its equality, on URL strings given as the    *)
(* sequence of their characters                                            *)

MaxUrlLen == 3

UrlChars == {"a", "/"}

UrlStrings == UNION {[1..n -> UrlChars] : n \in 0..MaxUrlLen}

\* str::trim_end_matches(c): the string without its longest suffix of c's
RECURSIVE trim_end_matches(_, _)
trim_end_matches(s, c) ==
    IF s # <<>> /\ s[Len(s)] = c
    THEN trim_end_matches(SubSeq(s, 1, Len(s) - 1), c)
    ELSE s

\* strip_suffix(c).unwrap_or(s): at most one c is removed
strip_one(s, c) ==
    IF s # <<>> /\ s[Len(s)] = c THEN SubSeq(s, 1, Len(s) - 1) ELSE s

\* an equality that forgives one trailing slash only
PodcastURL_eq_one_slash(self, other) ==
    strip_one(self, "/") = strip_one(other, "/")

\* lines 16-23: impl PartialEq for PodcastURL
PodcastURL_eq(self, other) ==
    LET a == trim_end_matches(self, "/")
        b == trim_end_matches(other, "/")
    IN a = b

\* three URLs are at hand
UrlInit ==
    /\ NoPipeline
    /\ app = NoApp
    /\ scroll = NoScroll
    /\ \E a \in UrlStrings, b \in UrlStrings, c \in UrlStrings :
          applied = [fn |-> "PodcastURL::eq", a |-> a, b |-> b, c |-> c, results |-> <<>>]

\* the URLs are compared with ==, pair by pair
ComparePodcastUrls ==
    /\ applied.results = <<>>
    /\ applied' = [applied EXCEPT !.results =
                      <<[aa |-> PodcastURL_eq(applied.a, applied.a),
                         ab |-> PodcastURL_eq(applied.a, applied.b),
                         ba |-> PodcastURL_eq(applied.b, applied.a),
                         bc |-> PodcastURL_eq(applied.b, applied.c),
                         ac |-> PodcastURL_eq(applied.a, applied.c)]>>]
    /\ UNCHANGED <<pipeline_vars, app, scroll>>

UrlNext == ComparePodcastUrls

UrlSpec == UrlInit /\ [][UrlNext]_vars

---------------------------------------------------------------------------
(* opml_parser.rs: parse_opml_from_string on a document that OPML::from_str *)
(* has read: the outlines of its body, each with its attributes and its    *)
(* child outlines                                                          *)

MissingTitle == [kind |-> "MissingTitle", text |-> "Outline item is missing 'text' or 'title' attribute"]

\* how many outlines a body or an outline holds at most
MaxOutlines == 2

Outline(type, text, title, xml_url, html_url) ==
    [type |-> type, text |-> text, title |-> title, xml_url |-> xml_url,
     html_url |-> html_url, outlines |-> <<>>]

O_feed     == Outline(Some("rss"), "Syntax FM", Some("Syntax FM"), Some("http://feed.syntax.fm/rss"), Some("https://syntax.fm"))
O_untyped  == Outline(None, "News", Some(""), Some("http://example.com/news.xml"), None)
O_no_url   == Outline(Some("RSS"), "No XML URL here", None, None, Some("http://example.com"))
O_empty_url == Outline(Some("rss"), "Malformed Feed", Some("Malformed Feed"), Some(""), None)
O_untitled == Outline(Some("rss"), "", Some(""), None, None)
O_folder   == Outline(None, "Just a Folder", None, None, None)

OutlineHeads == {O_feed, O_untyped, O_no_url, O_empty_url, O_untitled, O_folder}

\* outlines without children, outlines with children, bodies
LeafLists == UNION {[1..n -> OutlineHeads] : n \in 0..MaxOutlines}
Outlines == {[h EXCEPT !.outlines = l] : h \in OutlineHeads, l \in LeafLists}
Bodies == UNION {[1..n -> Outlines] : n \in 0..MaxOutlines}

\* str::eq_ignore_ascii_case("rss") on the values a type attribute takes
eq_ignore_ascii_case_rss(t) == t \in {"rss", "RSS", "Rss"}

\* a test that takes only the type attribute as the mark of a feed
IsFeed_by_type_only(outline) ==
    IsSome(outline.type) /\ eq_ignore_ascii_case_rss(Unwrap(outline.type))

\* lines 89-90: is_feed
IsFeed(outline) ==
    \/ (IsSome(outline.type) /\ eq_ignore_ascii_case_rss(Unwrap(outline.type)))
    \/ IsSome(outline.xml_url)

\* lines 94-115: the title attribute if it is not empty, else the text
\* attribute if it is not empty, else MissingTitle
FinalTitle(outline) ==
    IF IsSome(outline.title) /\ Unwrap(outline.title) # ""
    THEN Ok(Unwrap(outline.title))
    ELSE IF outline.text # "" THEN Ok(outline.text)
    ELSE Err(MissingTitle)

\* lines 118-121: xml_url.filter(|s| !s.is_empty()).ok_or(MissingXmlUrl)
XmlUrlStr(outline) ==
    IF IsSome(outline.xml_url) /\ Unwrap(outline.xml_url) # ""
    THEN Ok(Unwrap(outline.xml_url))
    ELSE Err(MissingXmlUrl)

\* lines 92-129: what a feed outline adds to feed_entries
OwnEntry(outline, feed_entries) ==
    IF ~IsFeed(outline) THEN Ok(feed_entries)
    ELSE IF ~FinalTitle(outline).ok THEN FinalTitle(outline)
    ELSE IF ~XmlUrlStr(outline).ok THEN XmlUrlStr(outline)
    ELSE Ok(Append(feed_entries, [title |-> FinalTitle(outline).val,
                                  xml_url |-> XmlUrlStr(outline).val,
                                  html_url |-> outline.html_url]))

\* lines 82-137: process_outline_recursive, and the loop over a list of
\* outlines from the i-th on; an error ends both at once (the ? operator)
RECURSIVE process_outline_recursive(_, _)
RECURSIVE ProcessOutlinesFrom(_, _, _)
process_outline_recursive(outline, feed_entries) ==
    LET own == OwnEntry(outline, feed_entries) IN
    IF ~own.ok THEN own
    ELSE ProcessOutlinesFrom(outline.outlines, 1, own.val)

ProcessOutlinesFrom(outlines, i, feed_entries) ==
    IF i > Len(outlines) THEN Ok(feed_entries)
    ELSE LET r == process_outline_recursive(outlines[i], feed_entries) IN
         IF ~r.ok THEN r
         ELSE ProcessOutlinesFrom(outlines, i + 1, r.val)

\* lines 51-64: parse_opml_from_string, document.body.outlines given
parse_opml_from_string(body_outlines) == ProcessOutlinesFrom(body_outlines, 1, <<>>)

\* a document is at hand
OpmlInit ==
    /\ NoPipeline
    /\ app = NoApp
    /\ scroll = NoScroll
    /\ \E body \in Bodies :
          applied = [fn |-> "parse_opml_from_string", body |-> body, results |-> <<>>]

ParseOpml ==
    /\ applied.results = <<>>
    /\ applied' = [applied EXCEPT !.results = <<parse_opml_from_string(applied.body)>>]
    /\ UNCHANGED <<pipeline_vars, app, scroll>>

OpmlNext == ParseOpml

OpmlSpec == OpmlInit /\ [][OpmlNext]_vars

---------------------------------------------------------------------------
(* Vocabulary of the properties *)

Last(s) == s[Len(s)]

\* task t's latest step was a call of this method, and calls[t] holds its effects
JustRan(t, method) ==
    /\ phase[t] \in {"running", "returned"}
    /\ invoked[t] # <<>>
    /\ Last(invoked[t]).method = method

\* the node of the chain that call was for
NodeJustRun(t) == chain[t][Len(invoked[t])]

\* an interpreter method of task t returns in this step
Returns(t) == Len(invoked'[t]) = Len(invoked[t]) + 1

OpsOf(step_calls) == [i \in DOMAIN step_calls |-> step_calls[i].op]

NoSpawn == \A s \in SubTasks : phase'[s] = "unspawned" <=> phase[s] = "unspawned"

---------------------------------------------------------------------------
(* C1: every interpreter method that is given an accumulator in the error  *)
(* state returns that same error and has no effect: no fetcher call, no    *)
(* file write, no task spawned, no event sent.                             *)
C1_ErrorIsInert ==
    [][\A t \in Tasks :
          (Returns(t) /\ ~Last(invoked'[t]).given.ok)
              => /\ Last(invoked'[t]).returned = Last(invoked'[t]).given
                 /\ acc'[t] = acc[t]
                 /\ calls'[t] = <<>>
                 /\ files' = files
                 /\ events' = events
                 /\ NoSpawn]_vars

\* a chain that met the error state at its first node and ran Save,
\* ProcessOpmlEntries with entries to launch, and End on it
C1_Witness ==
    /\ phase[Main] = "returned"
    /\ Len(invoked[Main]) = 3
    /\ \A i \in DOMAIN invoked[Main] : ~invoked[Main][i].given.ok
    /\ invoked[Main][1].method = "interpret_process_opml_entries"
    /\ chain[Main][1].entries # <<>>
    /\ invoked[Main][2].method = "interpret_save"

---------------------------------------------------------------------------
(* C2: run_commands calls exactly one interpreter method per node, in      *)
(* chain order, each with the accumulator the previous call returned (the  *)
(* first with the initial accumulator), whether or not that accumulator is *)
(* an error; interpret_end is called once, last, and what it returns is    *)
(* what run_commands returns.                                              *)
C2_OneCallPerNodeInOrder ==
    \A t \in Tasks :
        phase[t] # "unspawned" =>
            /\ Len(invoked[t]) = IF phase[t] = "returned" THEN Len(chain[t]) ELSE pc[t] - 1
            /\ \A i \in DOMAIN invoked[t] :
                  /\ invoked[t][i].method = MethodOf(chain[t][i])
                  /\ invoked[t][i].given =
                        IF i = 1 THEN initial_accumulator[t] ELSE invoked[t][i - 1].returned
                  /\ invoked[t][i].method = "interpret_end" <=> i = Len(chain[t])
            /\ phase[t] = "returned" => acc[t] = Last(invoked[t]).returned

\* a returned chain of three nodes whose first call returned an error
C2_Witness ==
    /\ phase[Main] = "returned"
    /\ Len(chain[Main]) = 3
    /\ invoked[Main][1].given.ok
    /\ ~invoked[Main][1].returned.ok
    /\ invoked[Main][2].method = "interpret_download"

---------------------------------------------------------------------------
(* C3: whatever the chain and the initial accumulator, run_commands comes  *)
(* to the End node, calls interpret_end and returns; it takes no step      *)
(* after that and never stands beyond the End node.                        *)
C3_ReachesEndAndStops ==
    /\ <>(phase[Main] = "returned")
    /\ [](\A t \in Tasks : phase[t] # "unspawned" => pc[t] \in DOMAIN chain[t])
    /\ [](phase[Main] = "returned" =>
             /\ chain[Main][pc[Main]].tag = "End"
             /\ Last(invoked[Main]).method = "interpret_end")
    /\ [][phase[Main] # "returned"]_vars

\* a chain that returned after a batch of two sub-chains, one of which failed
C3_Witness ==
    /\ phase[Main] = "returned"
    /\ Len(join_results) = 2
    /\ join_results[1] # join_results[2]

---------------------------------------------------------------------------
(* C4: in any chain run by run_commands, once a call is the first to       *)
(* return an error e, every later call returns Err(e), run_commands        *)
(* returns Err(e), and no later call reaches the network, writes a file or *)
(* sends an event.                                                         *)
FirstError(t, i) ==
    /\ ~invoked[t][i].returned.ok
    /\ \A k \in 1..(i - 1) : invoked[t][k].returned.ok

AlreadyFailed(t) == \E i \in DOMAIN invoked[t] : ~invoked[t][i].returned.ok

OutwardOps == {"HEAD", "PARTIAL_GET", "GET", "WRITE", "PUBLISH"}

C4_FirstErrorIsFinal ==
    /\ [](\A t \in Tasks : \A i \in DOMAIN invoked[t] :
             FirstError(t, i) =>
                 /\ \A j \in i..Len(invoked[t]) : invoked[t][j].returned = invoked[t][i].returned
                 /\ phase[t] = "returned" => acc[t] = invoked[t][i].returned)
    /\ [][\A t \in Tasks :
             (Returns(t) /\ AlreadyFailed(t))
                 => /\ \A k \in DOMAIN calls'[t] : calls'[t][k].op \notin OutwardOps
                    /\ files' = files
                    /\ events' = events]_vars

\* the sub-chain of an entry whose EvalUrl succeeded and whose Download
\* failed, after its Save and End
C4_Witness ==
    /\ phase[1] = "returned"
    /\ invoked[1][1].returned.ok
    /\ FirstError(1, 2)
    /\ Len(invoked[1]) = 4

---------------------------------------------------------------------------
(* interpret_eval_url on an Ok accumulator: what the properties compare    *)
(* the code with.  The sets below list, among the answers the fetcher can  *)
(* give, those a reader of the strings finds to satisfy the condition.     *)

\* task t's latest step was interpret_eval_url, given an Ok accumulator
EvalJustRan(t) ==
    /\ JustRan(t, "interpret_eval_url")
    /\ Last(invoked[t]).given.ok

EvaluatedUrl(t) == NodeJustRun(t).url
EvalReturned(t) == Last(invoked[t]).returned

\* the well-formed URLs whose scheme is http or https
HttpUrls == {"http://example.com/feed", "https://feeds.example.org/rss"}

\* the content types that contain application/rss+xml, application/atom+xml,
\* application/xml or text/xml when case is ignored
FeedContentTypeSamples == {CT_rss, CT_atom, CT_xml, CT_textxml}

\* the bodies that contain <rss or <feed when case is ignored
FeedBodySamples == {B_rss, B_feed}

HeadDeclaresFeed(resp) ==
    /\ resp.ok
    /\ "content-type" \in DOMAIN resp.val
    /\ resp.val["content-type"] \in FeedContentTypeSamples

---------------------------------------------------------------------------
(* C5: for an http or https URL, interpret_eval_url on an Ok accumulator   *)
(* issues a HEAD request for it, and when the answer carries a feed        *)
(* content type (case ignored) it succeeds with no partial GET.            *)
C5_HeadContentTypeValidates ==
    \A t \in Tasks :
        (EvalJustRan(t) /\ EvaluatedUrl(t) \in HttpUrls) =>
            /\ calls[t] # <<>>
            /\ calls[t][1].op = "HEAD"
            /\ calls[t][1].target = EvaluatedUrl(t)
            /\ HeadDeclaresFeed(calls[t][1].resp) =>
                  /\ EvalReturned(t).ok
                  /\ OpsOf(calls[t]) = <<"HEAD">>

\* validated by "Application/Atom+XML; charset=UTF-8"
C5_Witness ==
    \E t \in Tasks :
        /\ EvalJustRan(t)
        /\ OpsOf(calls[t]) = <<"HEAD">>
        /\ calls[t][1].resp = Ok(HeadersWith(CT_atom))
        /\ EvalReturned(t).ok

---------------------------------------------------------------------------
(* C6: for an http or https URL whose HEAD request fails or declares no    *)
(* feed content type, interpret_eval_url goes on to a partial GET of bytes *)
(* 0-4095 of the URL and succeeds if the text it gets contains <rss or     *)
(* <feed (case ignored), also after a failed HEAD.                         *)
C6_PartialGetFallback ==
    \A t \in Tasks :
        (/\ EvalJustRan(t)
         /\ EvaluatedUrl(t) \in HttpUrls
         /\ calls[t] # <<>>
         /\ ~HeadDeclaresFeed(calls[t][1].resp)) =>
            /\ OpsOf(calls[t]) = <<"HEAD", "PARTIAL_GET">>
            /\ calls[t][2].target = EvaluatedUrl(t)
            /\ calls[t][2].arg = <<0, 4095>>
            /\ (calls[t][2].resp.ok /\ calls[t][2].resp.val \in FeedBodySamples)
                  => EvalReturned(t).ok

\* a failed HEAD followed by a body holding <Feed>
C6_Witness ==
    \E t \in Tasks :
        /\ EvalJustRan(t)
        /\ OpsOf(calls[t]) = <<"HEAD", "PARTIAL_GET">>
        /\ ~calls[t][1].resp.ok
        /\ calls[t][2].resp = Ok(B_feed)
        /\ EvalReturned(t).ok

---------------------------------------------------------------------------
(* C7: for a URL that does not parse or whose scheme is neither http nor   *)
(* https, interpret_eval_url on an Ok accumulator fails with               *)
(* EvaluationFailed and has called no fetcher operation.                   *)
C7_BadUrlFailsBeforeNetwork ==
    \A t \in Tasks :
        (EvalJustRan(t) /\ EvaluatedUrl(t) \notin HttpUrls) =>
            /\ ~EvalReturned(t).ok
            /\ EvalReturned(t).err.kind = "EvaluationFailed"
            /\ calls[t] = <<>>

\* an ftp URL was evaluated
C7_Witness ==
    /\ EvalJustRan(Main)
    /\ EvaluatedUrl(Main) = "ftp://example.com/feed"
    /\ ~EvalReturned(Main).ok

---------------------------------------------------------------------------
(* C8: when the HEAD stage did not validate and the partial GET succeeded  *)
(* with a text holding neither <rss nor <feed, interpret_eval_url returns  *)
(* an EvaluationFailed error whose message names the URL; no evaluated URL *)
(* is recorded.                                                            *)
NotAFeed(t) ==
    /\ EvalJustRan(t)
    /\ Len(calls[t]) = 2
    /\ ~HeadDeclaresFeed(calls[t][1].resp)
    /\ calls[t][2].op = "PARTIAL_GET"
    /\ calls[t][2].resp.ok
    /\ calls[t][2].resp.val \notin FeedBodySamples

C8_NotAFeedFailsNamingUrl ==
    \A t \in Tasks :
        NotAFeed(t) =>
            /\ ~EvalReturned(t).ok
            /\ EvalReturned(t).err.kind = "EvaluationFailed"
            /\ \E k \in DOMAIN EvalReturned(t).err.args :
                  EvalReturned(t).err.args[k] = EvaluatedUrl(t)

\* text/html from HEAD, then an HTML page
C8_Witness ==
    \E t \in Tasks :
        /\ NotAFeed(t)
        /\ calls[t][1].resp = Ok(HeadersWith(CT_html))
        /\ calls[t][2].resp = Ok(B_html)

---------------------------------------------------------------------------
(* C9: when the partial GET itself fails, the error interpret_eval_url     *)
(* returns has the fetcher's DownloaderError as its source.                *)
C9_PartialGetErrorIsSource ==
    \A t \in Tasks :
        (/\ EvalJustRan(t)
         /\ Len(calls[t]) = 2
         /\ calls[t][2].op = "PARTIAL_GET"
         /\ ~calls[t][2].resp.ok) =>
            /\ ~EvalReturned(t).ok
            /\ EvalReturned(t).err.source = Some(calls[t][2].resp.err)

---------------------------------------------------------------------------
(* C10: when interpret_eval_url succeeds, by the HEAD or by the partial    *)
(* GET, the PipelineData it returns has last_evaluated_url = the URL and   *)
(* current_podcast = None, and the opml_entries it was given.              *)
C10_SuccessRecordsUrl ==
    \A t \in Tasks :
        (EvalJustRan(t) /\ EvalReturned(t).ok) =>
            /\ EvalReturned(t).val.last_evaluated_url = Some(EvaluatedUrl(t))
            /\ EvalReturned(t).val.current_podcast = None
            /\ EvalReturned(t).val.opml_entries = Last(invoked[t]).given.val.opml_entries

\* a URL validated by its body while a downloaded podcast was held
C10_Witness ==
    /\ EvalJustRan(Main)
    /\ EvalReturned(Main).ok
    /\ Last(invoked[Main]).given.val.current_podcast # None
    /\ Len(calls[Main]) = 2

---------------------------------------------------------------------------
(* interpret_download on an Ok accumulator *)

DownloadJustRan(t) ==
    /\ JustRan(t, "interpret_download")
    /\ Last(invoked[t]).given.ok

(* C11: interpret_download on an Ok accumulator fetches last_evaluated_url *)
(* when the accumulator holds one and the command's URL only when it holds *)
(* none; after a successful download current_podcast is the podcast built  *)
(* for the fetched URL and last_evaluated_url is None.                     *)
C11_DownloadPrefersEvaluatedUrl ==
    \A t \in Tasks :
        DownloadJustRan(t) =>
            LET given == Last(invoked[t]).given.val
                returned == Last(invoked[t]).returned
            IN
            /\ OpsOf(calls[t]) = <<"GET">>
            /\ given.last_evaluated_url # None =>
                   <<calls[t][1].target>> = given.last_evaluated_url
            /\ given.last_evaluated_url = None =>
                   calls[t][1].target = NodeJustRun(t).url
            /\ returned.ok =>
                   /\ returned.val.current_podcast # None
                   /\ returned.val.current_podcast[1].url = calls[t][1].target
                   /\ returned.val.last_evaluated_url = None

\* an evaluated URL other than the command's was downloaded
C11_Witness ==
    /\ DownloadJustRan(Main)
    /\ Last(invoked[Main]).given.val.last_evaluated_url
           \notin {None, <<NodeJustRun(Main).url>>}
    /\ Last(invoked[Main]).returned.ok

---------------------------------------------------------------------------
(* interpret_save on an Ok accumulator *)

SaveJustRan(t) ==
    /\ JustRan(t, "interpret_save")
    /\ Last(invoked[t]).given.ok

SaveGiven(t) == Last(invoked[t]).given.val
SaveReturned(t) == Last(invoked[t]).returned

SaveFailureKinds == {"SaveFailedWithMessage", "SaveFailedWithSource"}

(* C12: on an Ok accumulator interpret_save returns an InvalidState error  *)
(* exactly when current_podcast is None; any other failure of the step has *)
(* a save-failure kind.                                                    *)
C12_InvalidStateIffNoPodcast ==
    \A t \in Tasks :
        SaveJustRan(t) =>
            /\ (~SaveReturned(t).ok /\ SaveReturned(t).err.kind = "InvalidState")
                   <=> SaveGiven(t).current_podcast = None
            /\ (~SaveReturned(t).ok /\ SaveGiven(t).current_podcast # None)
                   => SaveReturned(t).err.kind \in SaveFailureKinds

\* Save ran with no podcast in the accumulator
C12_Witness ==
    /\ SaveJustRan(Main)
    /\ SaveGiven(Main).current_podcast = None
    /\ ~SaveReturned(Main).ok
    /\ SaveReturned(Main).err.kind = "InvalidState"

---------------------------------------------------------------------------
\* the step's write of the podcast file succeeded
WroteFile(step_calls) ==
    \E i \in DOMAIN step_calls : step_calls[i].op = "WRITE" /\ step_calls[i].resp.ok

(* C13: when interpret_save has written the podcast file, it sends exactly *)
(* one PodcastReadyForApp event, with the saved podcast, after the write;  *)
(* it returns Ok also when the send fails for want of a subscriber, and    *)
(* the PipelineData it returns is the one it was given.                    *)
C13_PublishAfterWrite ==
    /\ [](\A t \in Tasks :
            (SaveJustRan(t) /\ WroteFile(calls[t])) =>
                /\ OpsOf(calls[t]) = <<"CREATE_DIR", "WRITE", "PUBLISH">>
                /\ <<calls[t][2].arg>> = SaveGiven(t).current_podcast
                /\ calls[t][3].arg = calls[t][2].arg
                /\ calls[t][3].resp.ok <=> receivers > 0
                /\ SaveReturned(t) = [ok |-> TRUE, val |-> SaveGiven(t)]
                /\ SaveGiven(t).current_podcast # None)
    /\ [][\A t \in Tasks :
            (/\ Returns(t)
             /\ Last(invoked'[t]).method = "interpret_save"
             /\ WroteFile(calls'[t])) =>
                /\ \E f \in files' : f.content = calls'[t][2].arg
                /\ events' = IF receivers > 0
                             THEN Append(events, [kind |-> "PodcastReadyForApp",
                                                  podcast |-> calls'[t][2].arg])
                             ELSE events]_vars

\* the file was written and nobody was subscribed
C13_Witness ==
    \E t \in Tasks :
        /\ SaveJustRan(t)
        /\ WroteFile(calls[t])
        /\ ~Last(calls[t]).resp.ok
        /\ SaveReturned(t).ok
        /\ events = <<>>

---------------------------------------------------------------------------
\* the step's call of this kind was answered with an error
FailedAt(step_calls, op) ==
    \E i \in DOMAIN step_calls : step_calls[i].op = op /\ ~step_calls[i].resp.ok

ErrorOf(step_calls, op) ==
    step_calls[CHOOSE i \in DOMAIN step_calls : step_calls[i].op = op].resp.err

(* C14: an interpret_save that fails at the creation of the directory, at  *)
(* the serialization or at the write returns a SaveFailedWithSource error  *)
(* whose source is the underlying error, and sends no event; after a       *)
(* failed directory creation the step writes no file.                      *)
C14_SaveFailureCarriesCause ==
    /\ [](\A t \in Tasks :
            (SaveJustRan(t) /\ calls[t] # <<>>) =>
                /\ (FailedAt(calls[t], "CREATE_DIR") \/ FailedAt(calls[t], "WRITE"))
                       => ~SaveReturned(t).ok
                /\ ~SaveReturned(t).ok =>
                       /\ SaveReturned(t).err.kind = "SaveFailedWithSource"
                       /\ \A i \in DOMAIN calls[t] : calls[t][i].op # "PUBLISH"
                       /\ IF FailedAt(calls[t], "CREATE_DIR")
                          THEN /\ OpsOf(calls[t]) = <<"CREATE_DIR">>
                               /\ SaveReturned(t).err.source
                                      = <<ErrorOf(calls[t], "CREATE_DIR")>>
                          ELSE IF FailedAt(calls[t], "WRITE")
                          THEN SaveReturned(t).err.source = <<ErrorOf(calls[t], "WRITE")>>
                          ELSE /\ Len(SaveReturned(t).err.source) = 1
                               /\ SaveReturned(t).err.source[1].kind = "serde_json::Error")
    /\ [][\A t \in Tasks :
            (/\ Returns(t)
             /\ Last(invoked'[t]).method = "interpret_save"
             /\ ~Last(invoked'[t]).returned.ok) => events' = events]_vars

\* the directory could not be created
C14_Witness ==
    \E t \in Tasks :
        /\ SaveJustRan(t)
        /\ calls[t] # <<>>
        /\ FailedAt(calls[t], "CREATE_DIR")
        /\ ~SaveReturned(t).ok

---------------------------------------------------------------------------
(* generate_podcast_filename, as interpret_save applies it to the URL of   *)
(* the podcast it writes, compared with what it gives for the URLs below.  *)

FilenameUrls ==
    {"http://example.com/feed", "https://feeds.example.org/rss", "ftp://example.com/feed",
     "http://my_feeds.example.com/rss", "http://my~feeds.example.com/rss"}

HostOf(u) == UrlParse(u).val.host

\* the position of the last hyphen of a filename
LastHyphen(f) == CHOOSE i \in DOMAIN f : f[i] = "-" /\ \A j \in (i + 1)..Len(f) : f[j] # "-"

\* {prefix}-{hash}.json
PrefixPart(f) == SubSeq(f, 1, LastHyphen(f) - 1)
HashPart(f) == SubSeq(f, LastHyphen(f) + 1, Len(f) - 5)
HasJsonForm(f) ==
    /\ \E i \in DOMAIN f : f[i] = "-"
    /\ Len(f) >= 5
    /\ SubSeq(f, Len(f) - 4, Len(f)) = <<".","j","s","o","n">>

(* C15: the filename interpret_save writes has the form                    *)
(* {sanitized-host}-{hash}.json and, compared with the filename of any     *)
(* other URL: the same URL string gives the same filename, a different     *)
(* host gives a different prefix, and the hash parts differ exactly when   *)
(* the URL strings differ.                                                 *)
C15_FilenameDeterministicAndDistinct ==
    \A t \in Tasks :
        (SaveJustRan(t) /\ Len(calls[t]) >= 2) =>
            LET u == calls[t][2].arg.url
                f == calls[t][2].target
            IN
            /\ HasJsonForm(f)
            /\ \A u2 \in FilenameUrls :
                  LET f2 == generate_podcast_filename(u2).val IN
                  /\ u2 = u => f2 = f
                  /\ HostOf(u2) # HostOf(u) => PrefixPart(f2) # PrefixPart(f)
                  /\ HashPart(f2) # HashPart(f) <=> u2 # u

---------------------------------------------------------------------------
(* interpret_process_opml_entries on an Ok accumulator *)

\* run_commands of the main task is about to call the batch step with an
\* Ok accumulator
BatchStarts ==
    /\ AtNode(Main, "ProcessOpmlEntries")
    /\ acc[Main].ok

\* the entries of the accumulator when it holds a list, else the command's
ChosenEntries ==
    IF acc[Main].val.opml_entries # None
    THEN acc[Main].val.opml_entries[1]
    ELSE chain[Main][pc[Main]].entries

(* C16: when the list interpret_process_opml_entries settles on is empty,  *)
(* the step returns Ok at once: no sub-chain is spawned, and there is no   *)
(* fetcher call, file write or event.                                      *)
C16_EmptyBatchIsNoOp ==
    [][(BatchStarts /\ ChosenEntries = <<>>) =>
          /\ Returns(Main)
          /\ Last(invoked'[Main]).method = "interpret_process_opml_entries"
          /\ Last(invoked'[Main]).returned.ok
          /\ calls'[Main] = <<>>
          /\ NoSpawn
          /\ phase' = phase
          /\ files' = files
          /\ events' = events]_vars

\* an empty list in the accumulator, a non-empty one in the command
C16_Witness ==
    /\ JustRan(Main, "interpret_process_opml_entries")
    /\ Last(invoked[Main]).given.ok
    /\ Last(invoked[Main]).given.val.opml_entries = <<<<>>>>
    /\ NodeJustRun(Main).entries # <<>>
    /\ Last(invoked[Main]).returned.ok
    /\ calls[Main] = <<>>

---------------------------------------------------------------------------
\* the batch step of the main task has spawned its tasks and awaits them
BatchInFlight == phase[Main] = "joining"

\* join_all has completed in this step and the batch step returns
BatchReturns == phase[Main] = "joining" /\ phase'[Main] # "joining"

(* C17: for a batch of N entries, interpret_process_opml_entries launches  *)
(* exactly one sub-chain per entry, EvalUrl -> Download -> Save -> End on  *)
(* the entry's URL; it returns Ok however many of them fail, and the       *)
(* outcomes reported are one per entry: false for each sub-chain that      *)
(* ended in an error, true for each that ended Ok.                         *)
C17_BatchSucceedsWithPerEntryOutcomes ==
    /\ [](BatchInFlight =>
            /\ Len(calls[Main]) = Len(ChosenEntries)
            /\ \A i \in SubTasks :
                  IF i <= Len(ChosenEntries)
                  THEN /\ phase[i] \in {"running", "returned"}
                       /\ calls[Main][i].op = "SPAWN"
                       /\ chain[i] = <<EvalUrl(ChosenEntries[i].xml_url),
                                       Download(ChosenEntries[i].xml_url), Save, End>>
                  ELSE phase[i] = "unspawned")
    /\ [][BatchReturns =>
            /\ Last(invoked'[Main]).method = "interpret_process_opml_entries"
            /\ Last(invoked'[Main]).returned.ok
            /\ Len(join_results') = Len(ChosenEntries)
            /\ \A i \in 1..Len(ChosenEntries) :
                  join_results'[i] <=> Last(invoked[i]).returned.ok]_vars

\* two entries: the first sub-chain failed, the second succeeded
C17_Witness ==
    /\ JustRan(Main, "interpret_process_opml_entries")
    /\ Last(invoked[Main]).returned.ok
    /\ Len(calls[Main]) = 2
    /\ join_results = <<FALSE, TRUE>>

---------------------------------------------------------------------------
(* C18: interpret_process_opml_entries returns only when every sub-chain   *)
(* it launched has run its End step: no sub-chain is in flight once the    *)
(* step has returned, and, every sub-chain being scheduled until it ends,  *)
(* the step does return.                                                   *)
C18_BatchWaitsForAllSubChains ==
    /\ [][BatchReturns =>
            \A i \in 1..Len(calls[Main]) :
                /\ phase[i] = "returned"
                /\ Last(invoked[i]).method = "interpret_end"]_vars
    /\ [](~BatchInFlight => \A s \in SubTasks : phase[s] # "running")
    /\ (BatchInFlight ~> ~BatchInFlight)

\* the parent waits: the second sub-chain has ended, the first has not
C18_Witness ==
    /\ BatchInFlight
    /\ phase[2] = "returned"
    /\ phase[1] = "running"

---------------------------------------------------------------------------
\* the batch step of the main task has returned, given an Ok accumulator
BatchJustRan ==
    /\ JustRan(Main, "interpret_process_opml_entries")
    /\ Last(invoked[Main]).given.ok

BatchGiven == Last(invoked[Main]).given.val
BatchReturned == Last(invoked[Main]).returned

(* C19, as claimed: the PipelineData interpret_process_opml_entries        *)
(* returns equals the one it was given in last_evaluated_url,              *)
(* current_podcast and opml_entries.                                       *)
C19_AccumulatorUnchanged ==
    BatchJustRan =>
        /\ BatchReturned.ok
        /\ BatchReturned.val.last_evaluated_url = BatchGiven.last_evaluated_url
        /\ BatchReturned.val.current_podcast = BatchGiven.current_podcast
        /\ BatchReturned.val.opml_entries = BatchGiven.opml_entries

(* C19, amended: the PipelineData interpret_process_opml_entries returns   *)
(* equals the one it was given in last_evaluated_url and current_podcast,  *)
(* and its opml_entries is None: the entries held in the accumulator are   *)
(* consumed by the step.                                                   *)
C19_AccumulatorKeptEntriesConsumed ==
    BatchJustRan =>
        /\ BatchReturned.ok
        /\ BatchReturned.val.last_evaluated_url = BatchGiven.last_evaluated_url
        /\ BatchReturned.val.current_podcast = BatchGiven.current_podcast
        /\ BatchReturned.val.opml_entries = None

\* a batch taken from the accumulator has been processed
C19_Witness ==
    /\ BatchJustRan
    /\ BatchGiven.opml_entries \notin {None, <<<<>>>>}
    /\ BatchReturned.ok
    /\ join_results # <<>>

---------------------------------------------------------------------------
(* C20: interpret_process_opml_entries processes the entries of the        *)
(* accumulator's opml_entries whenever the field is present, an empty list *)
(* included, whatever the command carries, and the command's entries only  *)
(* when the field is absent: the sub-chains it spawns are those of the     *)
(* list so chosen, in its order.                                           *)
C20_AccumulatorEntriesPreferred ==
    [][BatchStarts =>
          IF ChosenEntries = <<>>
          THEN NoSpawn /\ phase'[Main] # "joining"
          ELSE /\ phase'[Main] = "joining"
               /\ Len(calls'[Main]) = Len(ChosenEntries)
               /\ \A i \in SubTasks :
                     IF i <= Len(ChosenEntries)
                     THEN /\ phase'[i] = "running"
                          /\ calls'[Main][i].target = ChosenEntries[i].xml_url
                          /\ chain'[i][1].url = ChosenEntries[i].xml_url
                     ELSE phase'[i] = "unspawned"]_vars

\* the accumulator holds one entry, the command carries two: one is spawned
C20_Witness ==
    /\ BatchInFlight
    /\ acc[Main].val.opml_entries # None
    /\ Len(acc[Main].val.opml_entries[1]) = 1
    /\ Len(chain[Main][pc[Main]].entries) = 2
    /\ Len(calls[Main]) = 1
    /\ phase[2] = "unspawned"

---------------------------------------------------------------------------
\* the sub-chains of the batch in flight
Spawned == {s \in SubTasks : phase[s] # "unspawned"}

(* C21: the sub-chains of a batch share no pipeline state: each starts     *)
(* from a default PipelineData and threads its own accumulator from step   *)
(* to step, and a step of one sub-chain leaves the chain, the position,    *)
(* the accumulator and the calls of every sibling as they were, whether    *)
(* the step fails or not.                                                  *)
C21_SubChainsAreIsolated ==
    /\ [](\A s \in Spawned :
            /\ initial_accumulator[s]
                   = [ok |-> TRUE,
                      val |-> [last_evaluated_url |-> None, current_podcast |-> None,
                               opml_entries |-> None]]
            /\ acc[s] = IF invoked[s] = <<>> THEN initial_accumulator[s]
                        ELSE Last(invoked[s]).returned
            /\ \A k \in DOMAIN invoked[s] :
                  invoked[s][k].given = IF k = 1 THEN initial_accumulator[s]
                                        ELSE invoked[s][k - 1].returned)
    /\ [][\A s \in SubTasks :
            Returns(s) =>
                \A o \in SubTasks \ {s} :
                    /\ acc'[o] = acc[o]
                    /\ invoked'[o] = invoked[o]
                    /\ calls'[o] = calls[o]
                    /\ chain'[o] = chain[o]
                    /\ pc'[o] = pc[o]
                    /\ phase'[o] = phase[o]]_vars

\* the first sub-chain ended in an error, the second with a saved podcast
C21_Witness ==
    /\ phase[1] = "returned"
    /\ ~acc[1].ok
    /\ phase[2] = "returned"
    /\ acc[2].ok
    /\ acc[2].val.current_podcast # None

---------------------------------------------------------------------------
\* task t's interpret_save returns in this step, having written its file
SaveWrites(t) ==
    /\ Returns(t)
    /\ Last(invoked'[t]).method = "interpret_save"
    /\ WroteFile(calls'[t])

(* C22: the Save of a sub-chain never writes to the file of a podcast with *)
(* another URL: whatever the order of the siblings' Save steps, the file   *)
(* it writes has a name no file of another URL has, and those files stay.  *)
C22_DistinctUrlsDistinctFiles ==
    [][\A s \in SubTasks :
          SaveWrites(s) =>
              \A f \in files :
                  f.content.url # calls'[s][2].arg.url =>
                      /\ f.name # calls'[s][2].target
                      /\ f \in files']_vars

\* both sub-chains of a batch have saved their podcast
C22_Witness ==
    /\ BatchInFlight
    /\ \E f1, f2 \in files :
          /\ f1.content.url = "http://example.com/feed"
          /\ f2.content.url = "https://feeds.example.org/rss"
    /\ \A s \in SubTasks : phase[s] = "returned" /\ acc[s].ok

---------------------------------------------------------------------------
\* the sub-chains: EvalUrl(u) -> Download(u) -> Save -> End from a default
\* accumulator; the URL of sub-chain s
ChainUrl(s) == chain[s][1].url

FilesOf(fs, u) == {f \in fs : f.content.url = u}

(* C23: in a run of EvalUrl(u) -> Download(u) -> Save -> End from a        *)
(* default accumulator, once u is validated a well-formed feed fetched for *)
(* u gives current_podcast the URL u and the title of the feed, with       *)
(* last_evaluated_url None; the Save that follows writes one file and      *)
(* returns the same data, which End returns; and a run that saves a URL    *)
(* that has a file writes to that file: there is never a second one.       *)
C23_EvalDownloadSaveRoundTrip ==
    /\ [](\A s \in Spawned :
            /\ (/\ DownloadJustRan(s)
                /\ invoked[s][1].returned.ok
                /\ calls[s][1].resp.ok
                /\ calls[s][1].resp.val.channel # None) =>
                   LET returned == Last(invoked[s]).returned IN
                   /\ calls[s][1].target = ChainUrl(s)
                   /\ returned.ok
                   /\ returned.val.last_evaluated_url = None
                   /\ returned.val.current_podcast # None
                   /\ returned.val.current_podcast[1].url = ChainUrl(s)
                   /\ returned.val.current_podcast[1].title
                          = calls[s][1].resp.val.channel[1].title
            /\ (/\ SaveJustRan(s)
                /\ ~FailedAt(calls[s], "CREATE_DIR")
                /\ ~FailedAt(calls[s], "WRITE")
                /\ SaveReturned(s).ok) =>
                   /\ SaveReturned(s).val = SaveGiven(s)
                   /\ Cardinality({i \in DOMAIN calls[s] : calls[s][i].op = "WRITE"}) = 1
                   /\ \E f \in files :
                         /\ FilesOf(files, ChainUrl(s)) = {f}
                         /\ f.name = calls[s][2].target
            /\ (/\ phase[s] = "returned"
                /\ invoked[s][3].returned.ok) =>
                   /\ acc[s] = invoked[s][3].returned
                   /\ acc[s].val.current_podcast # None
                   /\ acc[s].val.current_podcast[1].url = ChainUrl(s)
                   /\ acc[s].val.last_evaluated_url = None)
    /\ [][\A t \in Tasks :
            SaveWrites(t) =>
                LET u == calls'[t][2].arg.url IN
                /\ \A g \in FilesOf(files, u) : g.name = calls'[t][2].target
                /\ Cardinality(FilesOf(files', u)) = 1
                /\ FilesOf(files, u) # {} => Cardinality(files') = Cardinality(files)]_vars

\* the same entry was imported by two batches: two events, one file
C23_Witness ==
    /\ BatchInFlight
    /\ phase[1] = "returned"
    /\ acc[1].ok
    /\ Len(events) = 2
    /\ events[1].podcast.url = ChainUrl(1)
    /\ events[2].podcast.url = ChainUrl(1)
    /\ Cardinality(files) = 1

---------------------------------------------------------------------------
\* the Download of sub-chain s was given an Ok accumulator and failed
DownloadFailedIn(hist) ==
    /\ Len(hist) >= 2
    /\ hist[2].method = "interpret_download"
    /\ hist[2].given.ok
    /\ ~hist[2].returned.ok

(* C24: when the fetch fails, or the body fetched is not a feed,           *)
(* interpret_download returns a DownloadFailed error whose source is the   *)
(* downloader's error (an RSS error for a malformed body); in the chain    *)
(* EvalUrl -> Download -> Save -> End that error is the accumulator given  *)
(* to and returned by Save and End, and from the failed Download on the    *)
(* chain writes no file and sends no event.                                *)
C24_DownloadFailurePropagates ==
    /\ [](\A t \in Tasks :
            DownloadJustRan(t) =>
                LET returned == Last(invoked[t]).returned
                    resp == calls[t][1].resp
                IN
                /\ ~resp.ok =>
                       /\ ~returned.ok
                       /\ returned.err.kind = "DownloadFailed"
                       /\ returned.err.source = <<resp.err>>
                /\ (resp.ok /\ resp.val.channel = None) =>
                       /\ ~returned.ok
                       /\ returned.err.kind = "DownloadFailed"
                       /\ Len(returned.err.source) = 1
                       /\ returned.err.source[1].kind = "RssError")
    /\ [](\A s \in Spawned :
            DownloadFailedIn(invoked[s]) =>
                /\ \A k \in 3..Len(invoked[s]) :
                      /\ invoked[s][k].given = invoked[s][2].returned
                      /\ invoked[s][k].returned = invoked[s][2].returned
                /\ acc[s] = invoked[s][2].returned)
    /\ [][\A s \in SubTasks :
            (Returns(s) /\ DownloadFailedIn(invoked'[s])) =>
                /\ files' = files
                /\ events' = events
                /\ \A i \in DOMAIN calls'[s] : calls'[s][i].op \notin {"WRITE", "PUBLISH"}]_vars

\* a malformed body: the sub-chain has ended with the RSS error
C24_Witness ==
    \E s \in Spawned :
        /\ phase[s] = "returned"
        /\ DownloadFailedIn(invoked[s])
        /\ Last(invoked[s]).method = "interpret_end"
        /\ ~acc[s].ok
        /\ acc[s].err.source[1].kind = "RssError"

---------------------------------------------------------------------------
\* the k-th call of a chain was a step of this method that succeeded
SucceededAt(hist, k, method) ==
    /\ hist[k].method = method
    /\ hist[k].given.ok
    /\ hist[k].returned.ok

\* current_podcast can only come from a successful Download that no
\* successful EvalUrl has followed
PodcastOnlyFromDownload ==
    \A t \in Tasks :
        (acc[t].ok /\ IsSome(acc[t].val.current_podcast)) =>
            \E k \in DOMAIN invoked[t] :
                /\ SucceededAt(invoked[t], k, "interpret_download")
                /\ \A j \in (k + 1)..Len(invoked[t]) :
                       ~SucceededAt(invoked[t], j, "interpret_eval_url")

\* the latest call of task t is a Save that follows a successful EvalUrl
\* with no successful Download in between
SaveAfterEvalWithoutDownload(t) ==
    /\ JustRan(t, "interpret_save")
    /\ \E k \in 1..(Len(invoked[t]) - 1) :
          /\ SucceededAt(invoked[t], k, "interpret_eval_url")
          /\ \A j \in (k + 1)..(Len(invoked[t]) - 1) :
                 ~SucceededAt(invoked[t], j, "interpret_download")

ReturnedInvalidState(t) ==
    /\ ~Last(invoked[t]).returned.ok
    /\ Last(invoked[t]).returned.err.kind = "InvalidState"

(* C25, as stated: in every chain run from a default PipelineData,         *)
(* current_podcast is present only if a Download succeeded earlier and no  *)
(* EvalUrl has succeeded since; and every Save that follows a successful   *)
(* EvalUrl with no successful Download in between fails with InvalidState. *)
C25_SaveAfterEvalAlwaysInvalidState ==
    /\ PodcastOnlyFromDownload
    /\ \A t \in Tasks : SaveAfterEvalWithoutDownload(t) => ReturnedInvalidState(t)

(* C25, amended: the same, for a Save that is given an Ok accumulator; a   *)
(* Save given an error (a Download between the two failed) returns that    *)
(* error.                                                                  *)
C25_OkSaveAfterEvalIsInvalidState ==
    /\ PodcastOnlyFromDownload
    /\ \A t \in Tasks :
          SaveAfterEvalWithoutDownload(t) =>
              IF Last(invoked[t]).given.ok
              THEN ReturnedInvalidState(t)
              ELSE Last(invoked[t]).returned = Last(invoked[t]).given

\* Download succeeds, EvalUrl succeeds and clears the podcast, Save fails
C25_Witness ==
    /\ Len(invoked[Main]) >= 3
    /\ SucceededAt(invoked[Main], 1, "interpret_download")
    /\ SucceededAt(invoked[Main], 2, "interpret_eval_url")
    /\ IsSome(invoked[Main][2].given.val.current_podcast)
    /\ invoked[Main][3].method = "interpret_save"
    /\ invoked[Main][3].given.ok
    /\ ~invoked[Main][3].returned.ok
    /\ invoked[Main][3].returned.err.kind = "InvalidState"

---------------------------------------------------------------------------
\* the successful Downloads of a chain that were handed the URL recorded by
\* the successful EvalUrl at position k
ConsumersOf(hist, k) ==
    {j \in (k + 1)..Len(hist) :
        /\ SucceededAt(hist, j, "interpret_download")
        /\ hist[j].given.val.last_evaluated_url = hist[k].returned.val.last_evaluated_url
        /\ \A i \in (k + 1)..(j - 1) : ~SucceededAt(hist, i, "interpret_eval_url")}

\* the latest call of task t is a Download that follows another Download
\* with no EvalUrl node between the two
SecondDownload(t) ==
    /\ JustRan(t, "interpret_download")
    /\ \E j \in 1..(Len(invoked[t]) - 1) :
          /\ invoked[t][j].method = "interpret_download"
          /\ \A i \in (j + 1)..(Len(invoked[t]) - 1) :
                 invoked[t][i].method # "interpret_eval_url"

(* C26: the URL recorded by one successful EvalUrl is used by at most one  *)
(* successful Download, and a Download that follows another Download with  *)
(* no EvalUrl in between fetches the URL of its own command node.          *)
C26_EvaluatedUrlConsumedOnce ==
    \A t \in Tasks :
        /\ \A k \in DOMAIN invoked[t] :
              SucceededAt(invoked[t], k, "interpret_eval_url") =>
                  /\ IsSome(invoked[t][k].returned.val.last_evaluated_url)
                  /\ Cardinality(ConsumersOf(invoked[t], k)) <= 1
        /\ SecondDownload(t) =>
              \A i \in DOMAIN calls[t] :
                  calls[t][i].op = "GET" => calls[t][i].target = NodeJustRun(t).url

\* EvalUrl records one URL, the first Download fetches it, the second
\* Download fetches the different URL of its own node
C26_Witness ==
    /\ Len(invoked[Main]) = 3
    /\ SucceededAt(invoked[Main], 1, "interpret_eval_url")
    /\ SucceededAt(invoked[Main], 2, "interpret_download")
    /\ SucceededAt(invoked[Main], 3, "interpret_download")
    /\ ConsumersOf(invoked[Main], 1) = {2}
    /\ chain[Main][3].url # chain[Main][1].url
    /\ calls[Main] # <<>>
    /\ calls[Main][1].op = "GET"
    /\ calls[Main][1].target = chain[Main][3].url

---------------------------------------------------------------------------
ImportRequested == IsSome(cli.import_opml_file)

\* where main can stand once it has left the import
MainEnded == cli.at \in {"exit_failure", "exit_success", "ui"}

---------------------------------------------------------------------------
\* interpret_end of task t returns in this step
EndReturns(t) ==
    /\ Returns(t)
    /\ Last(invoked'[t]).method = "interpret_end"

(* C28: interpret_end returns the accumulator it is given, Ok or Err,      *)
(* unchanged, and has no effect: no fetcher call, no file written, no      *)
(* event sent, no task spawned.                                            *)
C28_EndIsIdentity ==
    [][\A t \in Tasks :
          EndReturns(t) =>
              /\ Last(invoked'[t]).given = acc[t]
              /\ Last(invoked'[t]).returned = acc[t]
              /\ acc' = acc
              /\ calls'[t] = <<>>
              /\ files' = files
              /\ events' = events
              /\ receivers' = receivers
              /\ NoSpawn]_vars

\* End has run on an Ok accumulator that holds a saved podcast
C28_Witness ==
    /\ phase[Main] = "returned"
    /\ Last(invoked[Main]).method = "interpret_end"
    /\ Last(invoked[Main]).given.ok
    /\ IsSome(Last(invoked[Main]).given.val.current_podcast)
    /\ Last(invoked[Main]).returned = Last(invoked[Main]).given
    /\ Len(events) = 1
    /\ Cardinality(files) = 1

---------------------------------------------------------------------------
\* task t's latest step was interpret_load_opml_file on an Ok accumulator
LoadJustRan(t) ==
    /\ JustRan(t, "interpret_load_opml_file")
    /\ Last(invoked[t]).given.ok

LoadGiven(t) == Last(invoked[t]).given.val
LoadReturned(t) == Last(invoked[t]).returned

(* C29: interpret_load_opml_file on an Ok accumulator: when the OPML file  *)
(* cannot be read or parsed, it returns an EvaluationFailedWithSource      *)
(* error whose message and source carry the parser's error, and spawns     *)
(* nothing; when the file is parsed, it returns the accumulator with the   *)
(* parsed list in opml_entries and last_evaluated_url and current_podcast  *)
(* as they were.                                                           *)
C29_LoadOpmlStoresEntriesOrFails ==
    /\ [](\A t \in Tasks :
            LoadJustRan(t) =>
                /\ Len(calls[t]) = 1
                /\ calls[t][1].op = "READ_OPML"
                /\ calls[t][1].target = NodeJustRun(t).path
                /\ LET parse_resp == calls[t][1].resp IN
                   IF parse_resp.ok
                   THEN /\ LoadReturned(t).ok
                        /\ LoadReturned(t).val.opml_entries = Some(parse_resp.val)
                        /\ LoadReturned(t).val.last_evaluated_url = LoadGiven(t).last_evaluated_url
                        /\ LoadReturned(t).val.current_podcast = LoadGiven(t).current_podcast
                   ELSE /\ ~LoadReturned(t).ok
                        /\ LoadReturned(t).err.kind = "EvaluationFailedWithSource"
                        /\ LoadReturned(t).err.source = Some(Failed(parse_resp.err.text))
                        /\ \E i \in DOMAIN LoadReturned(t).err.args :
                               LoadReturned(t).err.args[i] = parse_resp.err.text)
    /\ [][\A t \in Tasks :
            (Returns(t) /\ Last(invoked'[t]).method = "interpret_load_opml_file") =>
                /\ NoSpawn
                /\ files' = files
                /\ events' = events]_vars

\* the file is parsed while the accumulator holds an evaluated URL
C29_Witness ==
    /\ LoadJustRan(Main)
    /\ IsSome(LoadGiven(Main).last_evaluated_url)
    /\ LoadReturned(Main).ok
    /\ Len(Unwrap(LoadReturned(Main).val.opml_entries)) = MaxEntries
    /\ LoadReturned(Main).val.last_evaluated_url = LoadGiven(Main).last_evaluated_url

---------------------------------------------------------------------------
\* the server answered the latest request with a status outside 2xx
NonSuccessAnswer ==
    /\ wire # NoExchange
    /\ wire[1].answer.sent
    /\ ~is_success(wire[1].answer.status)

(* C30: each of fetch, fetch_headers and fetch_partial_content of the live *)
(* HTTP fetcher returns an error when the server answers with a            *)
(* non-success status, and fetch_partial_content returns the body when the *)
(* status is 200 or 206.                                                   *)
C30_NonSuccessStatusIsAnError ==
    /\ NonSuccessAnswer => ~wire[1].resp.ok
    /\ (/\ wire # NoExchange
        /\ wire[1].op = "PARTIAL_GET"
        /\ wire[1].answer.sent
        /\ wire[1].answer.status \in {200, PARTIAL_CONTENT}
        /\ wire[1].answer.body.ok)
       => wire[1].resp = Ok(wire[1].answer.body.val)

---------------------------------------------------------------------------
\* s is p followed by slashes only
SlashesAfter(p, s) ==
    /\ Len(p) <= Len(s)
    /\ SubSeq(s, 1, Len(p)) = p
    /\ \A i \in (Len(p) + 1)..Len(s) : s[i] = "/"

\* p is s without its trailing slashes
IsTrimmed(p, s) ==
    /\ SlashesAfter(p, s)
    /\ p # <<>> => p[Len(p)] # "/"

(* C31: PodcastURL equality holds exactly when the two URL strings are the *)
(* same after all their trailing slashes are removed; it is reflexive,     *)
(* symmetric and transitive, and a URL equals itself followed by any       *)
(* number of slashes.                                                      *)
C31_UrlEqualityTrimsSlashes ==
    (applied # NoCall /\ applied.results # <<>>) =>
        LET r == applied.results[1] IN
        /\ r.aa
        /\ r.ab = r.ba
        /\ (r.ab /\ r.bc) => r.ac
        /\ r.ab <=> \E p \in UrlStrings : IsTrimmed(p, applied.a) /\ IsTrimmed(p, applied.b)
        /\ SlashesAfter(applied.a, applied.b) => r.ab

\* a URL, the same with two slashes appended, and another URL
C31_Witness ==
    /\ applied # NoCall
    /\ applied.results # <<>>
    /\ applied.a # <<>>
    /\ applied.b = applied.a \o <<"/", "/">>
    /\ applied.results[1].ab
    /\ ~applied.results[1].bc

---------------------------------------------------------------------------
\* the outlines of a body in document order: each outline, then its children
RECURSIVE InDocumentOrder(_)
InDocumentOrder(outlines) ==
    IF outlines = <<>> THEN <<>>
    ELSE <<[outlines[1] EXCEPT !.outlines = <<>>]>>
             \o InDocumentOrder(outlines[1].outlines)
             \o InDocumentOrder(SubSeq(outlines, 2, Len(outlines)))

\* an outline with type rss
MarkedAsFeed(o) == o.type \in {Some("rss"), Some("RSS"), Some("Rss")}

HasXmlUrl(o) == o.xml_url # None /\ o.xml_url # Some("")

HasTitle(o) == (o.title # None /\ o.title # Some("")) \/ o.text # ""

\* an outline that is taken for a feed: marked as one, or carrying xmlUrl
TakenForFeed(o) == MarkedAsFeed(o) \/ o.xml_url # None

\* the entries of the feed outlines of a list, in the order of the list
RECURSIVE EntriesOf(_)
EntriesOf(flat) ==
    IF flat = <<>> THEN <<>>
    ELSE (IF TakenForFeed(flat[1])
          THEN <<[title |-> IF flat[1].title # None /\ flat[1].title # Some("")
                            THEN flat[1].title[1] ELSE flat[1].text,
                  xml_url |-> flat[1].xml_url[1],
                  html_url |-> flat[1].html_url]>>
          ELSE <<>>)
         \o EntriesOf(SubSeq(flat, 2, Len(flat)))

Parsed == applied # NoCall /\ applied.fn = "parse_opml_from_string" /\ applied.results # <<>>

(* C32, as stated: an outline marked as a feed (type rss) without a        *)
(* non-empty xmlUrl makes the whole parse fail with MissingXmlUrl, no      *)
(* entry being returned; otherwise folders are skipped and the feed        *)
(* outlines, nested ones included, are collected in document order.        *)
C32_MissingXmlUrlFailsParse ==
    Parsed =>
        LET flat == InDocumentOrder(applied.body)
            result == applied.results[1]
        IN
        /\ (\E i \in DOMAIN flat : MarkedAsFeed(flat[i]) /\ ~HasXmlUrl(flat[i])) =>
               result = Err(MissingXmlUrl)
        /\ (\A i \in DOMAIN flat : TakenForFeed(flat[i]) => HasXmlUrl(flat[i]) /\ HasTitle(flat[i])) =>
               result = Ok(EntriesOf(flat))

\* the first outline in document order that is taken for a feed and lacks
\* a title or an xmlUrl
FirstDefect(flat) ==
    CHOOSE i \in DOMAIN flat :
        /\ TakenForFeed(flat[i]) /\ ~(HasXmlUrl(flat[i]) /\ HasTitle(flat[i]))
        /\ \A j \in 1..(i - 1) :
               TakenForFeed(flat[j]) => HasXmlUrl(flat[j]) /\ HasTitle(flat[j])

(* C32, amended: such an outline makes the whole parse fail and no entry   *)
(* is returned; the error is that of the first defective feed outline in   *)
(* document order: MissingTitle if it has neither a title nor a text,      *)
(* MissingXmlUrl otherwise.  Without a defective feed outline, folders are *)
(* skipped and the feed outlines are collected in document order.          *)
C32_DefectiveFeedFailsParse ==
    Parsed =>
        LET flat == InDocumentOrder(applied.body)
            result == applied.results[1]
            defective == {i \in DOMAIN flat :
                             TakenForFeed(flat[i]) /\ ~(HasXmlUrl(flat[i]) /\ HasTitle(flat[i]))}
        IN
        /\ (\E i \in DOMAIN flat : MarkedAsFeed(flat[i]) /\ ~HasXmlUrl(flat[i])) => ~result.ok
        /\ defective # {} =>
               result = (IF HasTitle(flat[FirstDefect(flat)])
                         THEN Err(MissingXmlUrl) ELSE Err(MissingTitle))
        /\ defective = {} => result = Ok(EntriesOf(flat))

\* a folder holding two feeds, then a feed holding a feed without xmlUrl
C32_Witness ==
    /\ Parsed
    /\ Len(applied.body) = 2
    /\ applied.body[1] = [O_folder EXCEPT !.outlines = <<O_untyped, O_feed>>]
    /\ applied.body[2] = [O_feed EXCEPT !.outlines = <<O_no_url>>]
    /\ applied.results[1] = Err(MissingXmlUrl)

---------------------------------------------------------------------------
(* podcast.rs: the serde form of a Podcast; app.rs: load_podcasts_from_disk *)

\* JSON values
JString(s) == [t |-> "string", s |-> s]
JNull      == [t |-> "null"]
JArray(xs) == [t |-> "array", xs |-> xs]
\* an object is the sequence of its members, each a <<key, value>> pair
JObject(members) == [t |-> "object", v |-> members]
\* a text serde_json cannot parse at all
JMalformed(text) == [t |-> "malformed", text |-> text]
\* bytes that are not UTF-8: fs::read_to_string fails on them
NotUtf8 == [t |-> "bytes"]

HasMember(obj, key) == \E i \in DOMAIN obj.v : obj.v[i][1] = key
Member(obj, key) == obj.v[CHOOSE i \in DOMAIN obj.v : obj.v[i][1] = key][2]

\* podcast.rs 78-94: the members of a serialized Episode; the channel items
\* of the model carry no data of their own, so the values are fixed
EpisodeJson(i) ==
    JObject(<< <<"id", JString("episode")>>, <<"title", JString("Episode")>>,
               <<"description", JNull>>,
               <<"published_date", JString("2025-01-01T00:00:00Z")>>,
               <<"duration", JNull>>, <<"audio_url", JString("http://example.com/e.mp3")>>,
               <<"size_in_bytes", JNull>> >>)

\* podcast.rs 60-76 under serde_json::to_string_pretty: one member per
\* field, PodcastURL as its inner string, one array element per episode
to_string_pretty(podcast) ==
    JObject(<< <<"url", JString(podcast.url)>>, <<"title", JString(podcast.title)>>,
               <<"description", JNull>>, <<"image_url", JNull>>, <<"website_url", JNull>>,
               <<"episodes", JArray([i \in 1..podcast.episodes |-> EpisodeJson(i)])>>,
               <<"last_updated", JString("2025-01-01T00:00:00Z")>> >>)

\* a member that must be there with a value of the given kind
Required(obj, key, kind) == HasMember(obj, key) /\ Member(obj, key).t = kind

\* podcast.rs 78-94 under Deserialize: id, title, published_date and
\* audio_url are required, the Option fields may be missing
IsEpisodeJson(e) ==
    /\ e.t = "object"
    /\ Required(e, "id", "string")
    /\ Required(e, "title", "string")
    /\ Required(e, "published_date", "string")
    /\ Required(e, "audio_url", "string")

\* a deserializer that reads the members of the podcast but not its episodes
from_str_without_episodes(json_content) ==
    IF json_content.t # "object"
    THEN Err(SerdeError("expected value"))
    ELSE IF ~Required(json_content, "url", "string") THEN Err(SerdeError("missing field url"))
    ELSE IF ~Required(json_content, "title", "string")
    THEN Err(SerdeError("missing field title"))
    ELSE Ok([url |-> Member(json_content, "url").s,
             title |-> Member(json_content, "title").s,
             episodes |-> 0])

\* serde_json::from_str::<Podcast>: url, title, episodes and last_updated are
\* required; the podcast holds one episode per element of the array
from_str(json_content) ==
    IF json_content.t # "object"
    THEN Err(SerdeError("expected value"))
    ELSE IF ~Required(json_content, "url", "string") THEN Err(SerdeError("missing field url"))
    ELSE IF ~Required(json_content, "title", "string")
    THEN Err(SerdeError("missing field title"))
    ELSE IF ~Required(json_content, "episodes", "array")
    THEN Err(SerdeError("missing field episodes"))
    ELSE IF \E i \in DOMAIN Member(json_content, "episodes").xs :
                ~IsEpisodeJson(Member(json_content, "episodes").xs[i])
    THEN Err(SerdeError("missing field in episode"))
    ELSE IF ~Required(json_content, "last_updated", "string")
    THEN Err(SerdeError("missing field last_updated"))
    ELSE Ok([url |-> Member(json_content, "url").s,
             title |-> Member(json_content, "title").s,
             episodes |-> Len(Member(json_content, "episodes").xs)])

\* Path::extension: what follows the last dot of the file name, None if
\* there is no dot or the only dot starts the name
RECURSIVE LastDot(_, _)
LastDot(name, i) == IF i = 0 THEN 0 ELSE IF name[i] = "." THEN i ELSE LastDot(name, i - 1)

extension(name) ==
    LET d == LastDot(name, Len(name)) IN
    IF d <= 1 THEN None ELSE Some(SubSeq(name, d + 1, Len(name)))

\* the titles of the model in the order str::cmp gives them
TitleOrder == <<"Another Cast", "Old Show", "Test Podcast">>
TitleRank(title) == CHOOSE i \in DOMAIN TitleOrder : TitleOrder[i] = title

\* Vec::sort_by on the titles: a stable sort
RECURSIVE SortByTitle(_)
InsertByTitle(sorted, p) ==
    LET before == {i \in DOMAIN sorted : TitleRank(sorted[i].title) <= TitleRank(p.title)}
        k == IF before = {} THEN 0 ELSE CHOOSE i \in before : \A j \in before : j <= i
    IN SubSeq(sorted, 1, k) \o <<p>> \o SubSeq(sorted, k + 1, Len(sorted))

SortByTitle(ps) ==
    IF ps = <<>> THEN <<>>
    ELSE InsertByTitle(SortByTitle(SubSeq(ps, 1, Len(ps) - 1)), ps[Len(ps)])

\* app.rs 427-443: what one directory entry adds to loaded_podcasts
LoadEntry(entry) ==
    IF ~(entry.is_file /\ extension(entry.name) = Some(<<"j","s","o","n">>)) THEN <<>>
    ELSE IF entry.text.t = "bytes" THEN <<>>
    ELSE LET podcast == from_str(entry.text) IN
         IF podcast.ok THEN <<podcast.val>> ELSE <<>>

\* a loader that gives up at the first entry it cannot use
RECURSIVE LoadEntries_aborting(_)
LoadEntries_aborting(entries) ==
    IF entries = <<>> THEN <<>>
    ELSE IF LoadEntry(entries[1]) = <<>> THEN <<>>
    ELSE LoadEntry(entries[1]) \o LoadEntries_aborting(SubSeq(entries, 2, Len(entries)))

\* app.rs 426-447: the loop over the entries read_dir yields
RECURSIVE LoadEntries(_)
LoadEntries(entries) ==
    IF entries = <<>> THEN <<>>
    ELSE LoadEntry(entries[1]) \o LoadEntries(SubSeq(entries, 2, Len(entries)))

\* app.rs 416-454; entries is the directory as read_dir yields it
load_podcasts_from_disk(entries) == SortByTitle(LoadEntries(entries))

\* The data directory: the files Save has written hold the serialized form
\* of the podcast written, the others hold what they held before
DirEntry(name, is_file, text) == [name |-> name, is_file |-> is_file, text |-> text]

F_corrupt == DirEntry(<<"b","a","d",".","j","s","o","n">>, TRUE, JMalformed("{ url: "))
F_old     == DirEntry(<<"o","l","d",".","j","s","o","n">>, TRUE,
                      JObject(<< <<"url", JString("http://example.com/old")>>,
                                 <<"title", JString("Old Show")>> >>))
F_binary  == DirEntry(<<"r","a","w",".","j","s","o","n">>, TRUE, NotUtf8)
F_text    == DirEntry(<<"n","o","t","e","s",".","t","x","t">>, TRUE,
                      to_string_pretty([url |-> "http://example.com/notes", title |-> "Old Show",
                                        episodes |-> 1]))
F_subdir  == DirEntry(<<"d",".","j","s","o","n">>, FALSE, NotUtf8)
F_other   == DirEntry(<<"o","t","h","e","r",".","j","s","o","n">>, TRUE,
                      to_string_pretty([url |-> "http://example.com/other", title |-> "Old Show",
                                        episodes |-> 1]))

ForeignEntries == {F_corrupt, F_old, F_binary, F_text, F_subdir, F_other}

MaxForeign == 2
MaxSaves == 2

\* the podcasts a Download can have left in the accumulator
DiskPodcasts ==
    {create_podcast([title |-> title, items |-> items], u).val :
        title \in {"Another Cast", "Test Podcast"}, items \in {0, 2}, u \in {U_http, U_https}}

\* the entries of the data directory: fs::write replaces a file of the name
DataDir(fs, foreign) ==
    {DirEntry(f.name, TRUE, to_string_pretty(f.content)) : f \in fs}
        \cup {e \in foreign : \A f \in fs : f.name # e.name}

Orderings(S) ==
    {o \in [1..Cardinality(S) -> S] : \A i, j \in DOMAIN o : i # j => o[i] # o[j]}

DiskInit ==
    /\ chain = <<>> /\ pc = <<>> /\ acc = <<>> /\ initial_accumulator = <<>>
    /\ phase = <<>> /\ invoked = <<>> /\ calls = <<>> /\ held = <<>>
    /\ join_results = <<>> /\ files = {} /\ events = <<>> /\ receivers = 1
    /\ cli = NotMain /\ wire = NoExchange
    /\ app = NoApp /\ scroll = NoScroll
    /\ \E foreign \in SUBSET ForeignEntries :
          /\ Cardinality(foreign) <= MaxForeign
          /\ applied = [fn |-> "load_podcasts_from_disk", foreign |-> foreign,
                        saved |-> <<>>, entries |-> <<>>, results |-> <<>>]

\* one Save on an accumulator that holds a podcast, before the load
DiskSave ==
    /\ applied.results = <<>>
    /\ Len(applied.saved) < MaxSaves
    /\ \E podcast \in DiskPodcasts, env \in SaveEnvs :
          LET step == interpret_save(Ok(PipelineData(None, Some(podcast), <<>>)), env,
                                     receivers)
          IN /\ files' = FilesAfter(files, step.calls)
             /\ events' = EventsAfter(events, step.calls)
             /\ applied' = [applied EXCEPT !.saved = Append(@, [podcast |-> podcast,
                                                                 calls |-> step.calls,
                                                                 returned |-> step.acc])]
    /\ UNCHANGED <<chain, pc, acc, initial_accumulator, phase, invoked, calls, held,
                   join_results, receivers, cli, wire, app, scroll>>

\* load_podcasts_from_disk, on the directory in an order read_dir can yield
DiskLoad ==
    /\ applied.results = <<>>
    /\ \E entries \in Orderings(DataDir(files, applied.foreign)) :
          applied' = [applied EXCEPT !.entries = entries,
                                     !.results = <<load_podcasts_from_disk(entries)>>]
    /\ UNCHANGED <<chain, pc, acc, initial_accumulator, phase, invoked, calls, held,
                   join_results, files, events, receivers, cli, wire, app, scroll>>

DiskNext == DiskSave \/ DiskLoad

DiskSpec == DiskInit /\ [][DiskNext]_vars

---------------------------------------------------------------------------
(* Saved podcasts and the load from disk *)

\* load_podcasts_from_disk has run; what it returned
DiskLoaded == applied # NoCall /\ applied.fn = "load_podcasts_from_disk" /\ applied.results # <<>>
LoadedPodcasts == applied.results[1]

\* the k-th Save wrote its file
SaveWrote(k) ==
    \E i \in DOMAIN applied.saved[k].calls :
        applied.saved[k].calls[i].op = "WRITE" /\ applied.saved[k].calls[i].resp.ok

SavedName(k) ==
    applied.saved[k].calls[CHOOSE i \in DOMAIN applied.saved[k].calls :
                              applied.saved[k].calls[i].op = "WRITE"].target

\* the k-th Save wrote the file that is on the disk under its name at the load
OnDisk(k) ==
    /\ SaveWrote(k)
    /\ \A l \in DOMAIN applied.saved : l > k /\ SaveWrote(l) => SavedName(l) # SavedName(k)

\* the entry is a file named *.json whose content deserializes to a Podcast
Deserializes(entry) ==
    /\ entry.is_file
    /\ Len(entry.name) > 5
    /\ SubSeq(entry.name, Len(entry.name) - 4, Len(entry.name)) = <<".","j","s","o","n">>
    /\ entry.text.t = "object"
    /\ from_str(entry.text).ok

\* the position of the file of the k-th Save among the entries read
EntryOf(k) == CHOOSE i \in DOMAIN applied.entries : applied.entries[i].name = SavedName(k)

(* C33: once load_podcasts_from_disk has run, every podcast that a Save    *)
(* wrote and that is still on the disk is among the loaded podcasts with   *)
(* the title, the URL and the number of episodes it was saved with, and    *)
(* the load returns one podcast for each file that deserializes, whatever  *)
(* files that do not deserialize the directory holds beside them.          *)
C33_SavedPodcastsReload ==
    DiskLoaded =>
        /\ \A k \in DOMAIN applied.saved :
              OnDisk(k) =>
                  \E i \in DOMAIN LoadedPodcasts :
                      /\ LoadedPodcasts[i].title = applied.saved[k].podcast.title
                      /\ LoadedPodcasts[i].url = applied.saved[k].podcast.url
                      /\ LoadedPodcasts[i].episodes = applied.saved[k].podcast.episodes
        /\ Len(LoadedPodcasts) =
              Cardinality({i \in DOMAIN applied.entries : Deserializes(applied.entries[i])})

\* a podcast with two episodes is reloaded from a directory whose first
\* entry is a file that does not deserialize
C33_Witness ==
    /\ DiskLoaded
    /\ \E k \in DOMAIN applied.saved :
          /\ OnDisk(k)
          /\ applied.saved[k].podcast.episodes = 2
          /\ EntryOf(k) > 1
    /\ applied.entries[1] = F_corrupt
    /\ Len(LoadedPodcasts) = 1

---------------------------------------------------------------------------
(* widgets/scrollable_paragraph.rs: ScrollableParagraphState *)

U16_MAX == 65535

\* u16::saturating_sub, u16::saturating_add, the cast `as u16`, u16::min
saturating_sub(a, b) == IF a > b THEN a - b ELSE 0
wrapping_add(a, b) == (a + b) % (U16_MAX + 1)
saturating_add(a, b) == IF a + b > U16_MAX THEN U16_MAX ELSE a + b
as_u16(n) == n % (U16_MAX + 1)
min(a, b) == IF a <= b THEN a ELSE b

\* A text is the sequence of the unicode widths of its lines; a line of
\* width 0 is an empty line.
\* str::trim on a text: the empty lines at both ends go
RECURSIVE trim(_)
trim(content) ==
    IF content = <<>> THEN <<>>
    ELSE IF content[1] = 0 THEN trim(Tail(content))
    ELSE IF content[Len(content)] = 0 THEN trim(SubSeq(content, 1, Len(content) - 1))
    ELSE content

\* lines 17-25, and Default
NewParagraphState(content) ==
    [content |-> content, scroll_offset_vertical |-> 0, scroll_offset_horizontal |-> 0,
     panel_height |-> 0, panel_width |-> 0]

\* lines 42-48: the rows one line takes at the available width
rendered_rows_for_this_line(line_unicode_width, available_width) ==
    IF line_unicode_width = 0 THEN 1
    ELSE as_u16((line_unicode_width + available_width - 1) \div available_width)

\* lines 38-51: the fold over the lines
RECURSIVE total_rendered_lines(_, _, _)
total_rendered_lines(content, available_width, folded) ==
    IF content = <<>> THEN folded
    ELSE total_rendered_lines(Tail(content), available_width,
            saturating_add(folded, rendered_rows_for_this_line(content[1], available_width)))

\* lines 26-54
calculate_content_height_lines(self) ==
    LET available_width == saturating_sub(self.panel_width, self.scroll_offset_horizontal) IN
    IF available_width = 0 THEN 0
    ELSE total_rendered_lines(self.content, available_width, 0)

\* lines 56-59
max_scroll_vertical(self) ==
    saturating_sub(calculate_content_height_lines(self), self.panel_height)

\* a set_content that keeps the scroll position
set_content_keeps_scroll(self, content) == [self EXCEPT !.content = trim(content)]

\* lines 60-68
set_content(self, content) ==
    [self EXCEPT !.content = trim(content),
                 !.scroll_offset_vertical = 0,
                 !.scroll_offset_horizontal = 0]

\* lines 72-89
set_dimensions(self, width, height) ==
    LET needs_scroll_recalc == self.panel_width # width \/ self.panel_height # height
        sized == [self EXCEPT !.panel_width = width, !.panel_height = height]
    IN IF needs_scroll_recalc
       THEN [sized EXCEPT !.scroll_offset_vertical = min(@, max_scroll_vertical(sized))]
       ELSE self

\* lines 90-92
scroll_up(self, amount) ==
    [self EXCEPT !.scroll_offset_vertical = saturating_sub(@, amount)]

\* a scroll_down that adds with wrap-around
scroll_down_wrapping(self, amount) ==
    [self EXCEPT !.scroll_offset_vertical =
                     min(wrapping_add(@, amount), max_scroll_vertical(self))]

\* lines 94-98
scroll_down(self, amount) ==
    [self EXCEPT !.scroll_offset_vertical =
                     min(saturating_add(@, amount), max_scroll_vertical(self))]

\* the texts, the panel sizes and the amounts the state is driven with
ParagraphContents ==
    {<<>>, <<0, 12, 0>>, <<12, 0, 7>>, <<65535, 65535>>, <<65536>>, <<200000, 3>>}
PanelWidths  == {0, 1, 10}
PanelHeights == {0, 2}
ScrollAmounts == {1, 5, U16_MAX}

MaxScrollCalls == 4

\* the method called last, its arguments, the state it was called on and the
\* number of calls so far
ScrollCall(fn, given, was, n) == [fn |-> fn, given |-> given, was |-> was, n |-> n]

ScrollInit ==
    /\ chain = <<>> /\ pc = <<>> /\ acc = <<>> /\ initial_accumulator = <<>>
    /\ phase = <<>> /\ invoked = <<>> /\ calls = <<>> /\ held = <<>>
    /\ join_results = <<>> /\ files = {} /\ events = <<>> /\ receivers = 0
    /\ cli = NotMain /\ wire = NoExchange
    /\ app = NoApp
    /\ \E content \in ParagraphContents :
          /\ scroll = NewParagraphState(content)
          /\ applied = ScrollCall("new", <<content>>, scroll, 0)

ScrollFrame ==
    UNCHANGED <<chain, pc, acc, initial_accumulator, phase, invoked, calls, held,
                join_results, files, events, receivers, cli, wire, app>>

SetContent ==
    /\ applied.n < MaxScrollCalls
    /\ \E content \in ParagraphContents :
          /\ scroll' = set_content(scroll, content)
          /\ applied' = ScrollCall("set_content", <<content>>, scroll, applied.n + 1)
    /\ ScrollFrame

SetDimensions ==
    /\ applied.n < MaxScrollCalls
    /\ \E width \in PanelWidths, height \in PanelHeights :
          /\ scroll' = set_dimensions(scroll, width, height)
          /\ applied' = ScrollCall("set_dimensions", <<width, height>>, scroll, applied.n + 1)
    /\ ScrollFrame

ScrollUp ==
    /\ applied.n < MaxScrollCalls
    /\ \E amount \in ScrollAmounts :
          /\ scroll' = scroll_up(scroll, amount)
          /\ applied' = ScrollCall("scroll_up", <<amount>>, scroll, applied.n + 1)
    /\ ScrollFrame

ScrollDown ==
    /\ applied.n < MaxScrollCalls
    /\ \E amount \in ScrollAmounts :
          /\ scroll' = scroll_down(scroll, amount)
          /\ applied' = ScrollCall("scroll_down", <<amount>>, scroll, applied.n + 1)
    /\ ScrollFrame

ScrollNext == SetContent \/ SetDimensions \/ ScrollUp \/ ScrollDown

ScrollSpec == ScrollInit /\ [][ScrollNext]_vars

---------------------------------------------------------------------------
(* The show-notes scroll state driven through its methods *)

ScrollDriven == scroll # NoScroll

(* C39: in every state reached through set_content, set_dimensions,        *)
(* scroll_up and scroll_down the vertical offset is at most                *)
(* max_scroll_vertical(); scroll_up leaves the offset less the amount, or  *)
(* 0 when the amount is larger; scroll_down leaves the smallest of the     *)
(* offset plus the amount, the largest 16-bit value and the maximum, and   *)
(* so never a smaller offset than before; set_content leaves both offsets  *)
(* at 0.                                                                   *)
C39_ScrollOffsetStaysInRange ==
    ScrollDriven =>
        /\ scroll.scroll_offset_vertical \in 0..U16_MAX
        /\ scroll.scroll_offset_vertical <= max_scroll_vertical(scroll)
        /\ applied.fn = "scroll_up" =>
              /\ scroll.scroll_offset_vertical >= 0
              /\ scroll.scroll_offset_vertical =
                    IF applied.given[1] >= applied.was.scroll_offset_vertical THEN 0
                    ELSE applied.was.scroll_offset_vertical - applied.given[1]
        /\ applied.fn = "scroll_down" =>
              /\ scroll.scroll_offset_vertical >= applied.was.scroll_offset_vertical
              /\ scroll.scroll_offset_vertical <= U16_MAX
              /\ \A target \in {applied.was.scroll_offset_vertical + applied.given[1],
                                 U16_MAX, max_scroll_vertical(applied.was)} :
                     scroll.scroll_offset_vertical <= target
              /\ \E target \in {applied.was.scroll_offset_vertical + applied.given[1],
                                 U16_MAX, max_scroll_vertical(applied.was)} :
                     scroll.scroll_offset_vertical = target
        /\ applied.fn = "set_content" =>
              /\ scroll.scroll_offset_vertical = 0
              /\ scroll.scroll_offset_horizontal = 0

\* a scroll_down whose sum passes the largest 16-bit value, from an offset
\* above 0
C39_Witness ==
    /\ ScrollDriven
    /\ applied.fn = "scroll_down"
    /\ applied.was.scroll_offset_vertical > 0
    /\ applied.was.scroll_offset_vertical + applied.given[1] > U16_MAX
    /\ scroll.scroll_offset_vertical = U16_MAX

---------------------------------------------------------------------------
(* app.rs: App *)

\* ratatui ListState: select(index) and *offset_mut() = 0
ListState(selected, offset) == [selected |-> selected, offset |-> offset]
ListSelect(state, index) ==
    [selected |-> index, offset |-> IF index = None THEN 0 ELSE state.offset]
ListResetOffset(state) == [state EXCEPT !.offset = 0]

\* Vec::get with the 0-based index of the code
Get(xs, i) == IF i < Len(xs) THEN Some(xs[i + 1]) ELSE None

\* lines 384-386
selected_podcast(self) ==
    IF IsSome(self.selected_podcast_index)
    THEN Get(self.podcasts, Unwrap(self.selected_podcast_index))
    ELSE None

\* lines 388-391: the index of the selected episode if the selected podcast
\* holds an episode at it
selected_episode(self) ==
    IF IsSome(selected_podcast(self)) /\ IsSome(self.selected_episode_index)
       /\ Unwrap(self.selected_episode_index) < Unwrap(selected_podcast(self)).episodes
    THEN self.selected_episode_index
    ELSE None

\* the texts of the show notes, as the widths of their lines
EpisodeNotes == <<12, 0, 7>>
SelectAnEpisode == <<40>>
SelectAPodcast == <<55>>

\* lines 146-155
update_show_notes_content(self) ==
    LET new_content == IF IsSome(selected_episode(self)) THEN EpisodeNotes
                       ELSE IF IsSome(selected_podcast(self)) THEN SelectAnEpisode
                       ELSE SelectAPodcast
    IN [self EXCEPT !.show_notes_state = set_content(@, new_content)]

\* the episode selection, logical and of the list, set together
WithEpisode(self, index) ==
    [self EXCEPT !.selected_episode_index = index,
                 !.episodes_list_ui_state = ListSelect(@, index)]

\* lines 116-141
select_first_podcast(self) ==
    LET chosen ==
          IF self.podcasts # <<>>
          THEN LET picked == [self EXCEPT !.selected_podcast_index = Some(0)] IN
               IF self.podcasts[1].episodes # 0
               THEN WithEpisode(picked, Some(0))
               ELSE WithEpisode(picked, None)
          ELSE WithEpisode([self EXCEPT !.selected_podcast_index = None], None)
    IN update_show_notes_content(
          [chosen EXCEPT !.episodes_list_ui_state = ListResetOffset(@),
                         !.focused_panel = "Podcasts"])

\* lines 48-65
AppNew ==
    select_first_podcast(
        [should_quit |-> FALSE, podcasts |-> <<>>, selected_podcast_index |-> None,
         selected_episode_index |-> None, episodes_list_ui_state |-> ListState(None, 0),
         playing_episode |-> None, focused_panel |-> "Podcasts",
         show_notes_state |-> NewParagraphState(<<>>),
         event_channel_closed_reported |-> FALSE])

\* an add_podcast that takes two URLs for the same only if their strings are
add_podcast_by_string(self, podcast) ==
    IF \E i \in DOMAIN self.podcasts : self.podcasts[i].url = podcast.url THEN self
    ELSE LET pushed == [self EXCEPT !.podcasts = Append(@, podcast)] IN
         IF self.podcasts = <<>> THEN select_first_podcast(pushed) ELSE pushed

\* lines 95-112
add_podcast(self, podcast) ==
    IF \E i \in DOMAIN self.podcasts : PodcastURL_eq(self.podcasts[i].url, podcast.url)
    THEN self
    ELSE LET pushed == [self EXCEPT !.podcasts = Append(@, podcast)] IN
         IF self.podcasts = <<>> THEN select_first_podcast(pushed) ELSE pushed

\* lines 72-90; try_recv is what event_rx.try_recv() returned
handle_pending_events(self, try_recv) ==
    IF try_recv.ok THEN add_podcast(self, try_recv.val.podcast)
    ELSE IF try_recv.err.kind = "Closed"
    THEN [self EXCEPT !.event_channel_closed_reported = TRUE]
    ELSE self

\* lines 158-164
focus_next_panel(self) ==
    [self EXCEPT !.focused_panel = CASE @ = "Podcasts" -> "Episodes"
                                     [] @ = "Episodes" -> "ShowNotes"
                                     [] @ = "ShowNotes" -> "Podcasts"]

\* lines 166-172
focus_prev_panel(self) ==
    [self EXCEPT !.focused_panel = CASE @ = "Podcasts" -> "ShowNotes"
                                     [] @ = "Episodes" -> "Podcasts"
                                     [] @ = "ShowNotes" -> "Episodes"]

\* lines 176-184, 213-221: nothing to select in an empty list
ClearSelection(self) ==
    update_show_notes_content(
        [WithEpisode([self EXCEPT !.selected_podcast_index = None], None)
            EXCEPT !.episodes_list_ui_state = ListResetOffset(@)])

\* lines 197-209, 234-244: the podcast at new_idx selected, its first episode
\* if it has one
SelectPodcastAt(self, new_idx) ==
    LET moved == [WithEpisode([self EXCEPT !.selected_podcast_index = Some(new_idx)], None)
                     EXCEPT !.episodes_list_ui_state = ListResetOffset(@)]
        podcast == selected_podcast(moved)
    IN update_show_notes_content(
          IF IsSome(podcast) /\ Unwrap(podcast).episodes # 0
          THEN WithEpisode(moved, Some(0))
          ELSE moved)

\* a select_next_podcast that goes from the last podcast to the first
select_next_podcast_wrapping(self) ==
    IF self.podcasts = <<>> THEN ClearSelection(self)
    ELSE LET max_index == Len(self.podcasts) - 1
             new_idx == IF IsSome(self.selected_podcast_index)
                        THEN IF Unwrap(self.selected_podcast_index) < max_index
                             THEN Unwrap(self.selected_podcast_index) + 1
                             ELSE 0
                        ELSE 0
         IN SelectPodcastAt(self, new_idx)

\* lines 175-210
select_next_podcast(self) ==
    IF self.podcasts = <<>> THEN ClearSelection(self)
    ELSE LET max_index == Len(self.podcasts) - 1
             new_idx == IF IsSome(self.selected_podcast_index)
                        THEN IF Unwrap(self.selected_podcast_index) < max_index
                             THEN Unwrap(self.selected_podcast_index) + 1
                             ELSE Unwrap(self.selected_podcast_index)
                        ELSE 0
         IN SelectPodcastAt(self, new_idx)

\* lines 212-245
select_prev_podcast(self) ==
    IF self.podcasts = <<>> THEN ClearSelection(self)
    ELSE LET new_idx == IF IsSome(self.selected_podcast_index)
                        THEN IF Unwrap(self.selected_podcast_index) > 0
                             THEN Unwrap(self.selected_podcast_index) - 1
                             ELSE Unwrap(self.selected_podcast_index)
                        ELSE 0
         IN SelectPodcastAt(self, new_idx)

\* a select_next_episode that moves past the last episode
select_next_episode_unclamped(self) ==
    LET podcast == selected_podcast(self) IN
    IF ~IsSome(podcast) \/ Unwrap(podcast).episodes = 0
    THEN update_show_notes_content(WithEpisode(self, None))
    ELSE LET new_idx == IF IsSome(self.episodes_list_ui_state.selected)
                        THEN Unwrap(self.episodes_list_ui_state.selected) + 1
                        ELSE 0
         IN update_show_notes_content(WithEpisode(self, Some(new_idx)))

\* lines 248-279
select_next_episode(self) ==
    LET podcast == selected_podcast(self) IN
    IF ~IsSome(podcast) \/ Unwrap(podcast).episodes = 0
    THEN update_show_notes_content(WithEpisode(self, None))
    ELSE LET max_index == Unwrap(podcast).episodes - 1
             current == self.episodes_list_ui_state.selected
             new_idx == IF IsSome(current)
                        THEN IF Unwrap(current) < max_index
                             THEN Unwrap(current) + 1
                             ELSE Unwrap(current)
                        ELSE 0
         IN update_show_notes_content(WithEpisode(self, Some(new_idx)))

\* lines 281-310
select_prev_episode(self) ==
    LET podcast == selected_podcast(self) IN
    IF ~IsSome(podcast) \/ Unwrap(podcast).episodes = 0
    THEN update_show_notes_content(WithEpisode(self, None))
    ELSE LET current == self.episodes_list_ui_state.selected
             new_idx == IF IsSome(current)
                        THEN IF Unwrap(current) > 0
                             THEN Unwrap(current) - 1
                             ELSE Unwrap(current)
                        ELSE 0
         IN update_show_notes_content(WithEpisode(self, Some(new_idx)))

\* lines 332-345: the scroll actions of the show notes
ScrollShowNotes(self, key) ==
    [self EXCEPT !.show_notes_state =
        CASE key = "Down"     -> scroll_down(@, 1)
          [] key = "Up"       -> scroll_up(@, 1)
          [] key = "PageDown" -> scroll_down(@, 5)
          [] key = "PageUp"   -> scroll_up(@, 5)]

KeyCodes == {"q", "Down", "Up", "Right", "Tab", "Left", "BackTab", "PageDown", "PageUp", "Enter"}

\* lines 348-381
on_key(self, key) ==
    IF key = "q" THEN [self EXCEPT !.should_quit = TRUE]
    ELSE IF key \in {"Right", "Tab"} THEN focus_next_panel(self)
    ELSE IF key \in {"Left", "BackTab"} THEN focus_prev_panel(self)
    ELSE CASE self.focused_panel = "Podcasts" ->
                 (CASE key = "Down" -> select_next_podcast(self)
                    [] key = "Up"   -> select_prev_podcast(self)
                    [] OTHER        -> self)
           [] self.focused_panel = "Episodes" ->
                 (CASE key = "Down" -> select_next_episode(self)
                    [] key = "Up"   -> select_prev_episode(self)
                    [] OTHER        -> self)
           [] self.focused_panel = "ShowNotes" ->
                 (IF key \in {"Down", "Up", "PageDown", "PageUp"}
                  THEN ScrollShowNotes(self, key)
                  ELSE self)

\* The podcasts that reach the App; their URLs are character sequences, two
\* of them the same URL but for a trailing slash
P_a       == [url |-> <<"a">>, title |-> "Test Podcast", episodes |-> 2]
P_a_slash == [url |-> <<"a", "/">>, title |-> "Another Cast", episodes |-> 0]
\* the podcast of load_test_podcast
P_test    == [url |-> <<"h","t","t","p",":","/","/","e","x","a","m","p","l","e",
                        ".","c","o","m","/","f","e","e","d">>,
              title |-> "Test Podcast", episodes |-> 0]
P_c       == [url |-> <<"c", "/", "/">>, title |-> "Test Podcast", episodes |-> 3]
AppPodcasts == {P_a, P_a_slash, P_test, P_c}

\* lines 393-404
load_test_podcast(self) ==
    add_podcast(self, P_test)

\* what event_rx.try_recv() can return
TryRecvOutcomes ==
    {Ok([kind |-> "PodcastReadyForApp", podcast |-> p]) : p \in AppPodcasts}
        \cup {Err([kind |-> "Empty", n |-> 0]), Err([kind |-> "Lagged", n |-> 3]),
              Err([kind |-> "Closed", n |-> 0])}

\* the sizes terminal_ui::prepare_ui_layout finds for the show notes
ShowNotesAreas == {<<10, 2>>}

\* the selection methods of App that are called with no argument
SelectionOps ==
    {"select_first_podcast", "select_next_podcast", "select_prev_podcast",
     "select_next_episode", "select_prev_episode"}

ApplySelection(self, op) ==
    CASE op = "select_first_podcast" -> select_first_podcast(self)
      [] op = "select_next_podcast"  -> select_next_podcast(self)
      [] op = "select_prev_podcast"  -> select_prev_podcast(self)
      [] op = "select_next_episode"  -> select_next_episode(self)
      [] op = "select_prev_episode"  -> select_prev_episode(self)

\* the method of App called last, its argument, and the selections it found
Selections(self) == <<self.selected_podcast_index, self.selected_episode_index>>
AppCall(fn, given, was) == [fn |-> fn, given |-> given, was |-> was]

AppInit ==
    /\ chain = <<>> /\ pc = <<>> /\ acc = <<>> /\ initial_accumulator = <<>>
    /\ phase = <<>> /\ invoked = <<>> /\ calls = <<>> /\ held = <<>>
    /\ join_results = <<>> /\ files = {} /\ events = <<>> /\ receivers = 1
    /\ cli = NotMain /\ wire = NoExchange
    /\ scroll = NoScroll
    /\ app = AppNew
    /\ applied = AppCall("new", <<>>, <<None, None>>)

AppFrame ==
    UNCHANGED <<chain, pc, acc, initial_accumulator, phase, invoked, calls, held,
                join_results, files, events, receivers, cli, wire, scroll>>

AddPodcast ==
    /\ \E podcast \in AppPodcasts :
          /\ app' = add_podcast(app, podcast)
          /\ applied' = AppCall("add_podcast", <<podcast>>, Selections(app))
    /\ AppFrame

LoadTestPodcast ==
    /\ app' = load_test_podcast(app)
    /\ applied' = AppCall("load_test_podcast", <<>>, Selections(app))
    /\ AppFrame

HandlePendingEvents ==
    /\ \E try_recv \in TryRecvOutcomes :
          /\ app' = handle_pending_events(app, try_recv)
          /\ applied' = AppCall("handle_pending_events", <<try_recv>>, Selections(app))
    /\ AppFrame

\* terminal_ui.rs 111-132
PrepareUiLayout ==
    /\ \E area \in ShowNotesAreas :
          /\ app' = [app EXCEPT !.show_notes_state = set_dimensions(@, area[1], area[2])]
          /\ applied' = AppCall("prepare_ui_layout", <<area>>, Selections(app))
    /\ AppFrame

OnKey ==
    /\ \E key \in KeyCodes :
          /\ app' = on_key(app, key)
          /\ applied' = AppCall("on_key", <<key>>, Selections(app))
    /\ AppFrame

Select ==
    /\ \E op \in SelectionOps :
          /\ app' = ApplySelection(app, op)
          /\ applied' = AppCall(op, <<>>, Selections(app))
    /\ AppFrame

AppNext ==
    \/ AddPodcast
    \/ LoadTestPodcast
    \/ HandlePendingEvents
    \/ PrepareUiLayout
    \/ OnKey
    \/ Select

AppSpec == AppInit /\ [][AppNext]_vars

---------------------------------------------------------------------------
(* The list of podcasts of the App and its selections *)

AppRuns == app # NoApp

\* the two URLs are equal once their trailing slashes are taken off
SameFeed(u, v) ==
    \E k \in 1..(Len(u) + 1), l \in 1..(Len(v) + 1) :
        /\ SubSeq(u, 1, k - 1) = SubSeq(v, 1, l - 1)
        /\ \A i \in k..Len(u) : u[i] = "/"
        /\ \A i \in l..Len(v) : v[i] = "/"

\* the podcast handed to the App in the step: to add_podcast, or by an event
Added(p) ==
    \/ applied'.fn = "add_podcast" /\ applied'.given = <<p>>
    \/ /\ applied'.fn = "handle_pending_events"
       /\ applied'.given[1].ok
       /\ applied'.given[1].val.podcast = p

(* C34: the list never holds two podcasts whose URLs are equal but for     *)
(* trailing slashes, and a step that hands the App a podcast whose URL     *)
(* equals, in that sense, the URL of a podcast of the list leaves the list *)
(* and the selected podcast and episode as they were.                      *)
C34_NoTwoPodcastsOfOneUrl ==
    /\ [](AppRuns =>
            \A i, j \in DOMAIN app.podcasts :
                i # j => ~SameFeed(app.podcasts[i].url, app.podcasts[j].url))
    /\ [][\A p \in AppPodcasts :
            (/\ AppRuns
             /\ Added(p)
             /\ \E i \in DOMAIN app.podcasts : SameFeed(app.podcasts[i].url, p.url))
            => /\ app'.podcasts = app.podcasts
               /\ app'.selected_podcast_index = app.selected_podcast_index
               /\ app'.selected_episode_index = app.selected_episode_index
               /\ app'.episodes_list_ui_state = app.episodes_list_ui_state]_vars

\* the podcast of URL a/ has been handed to a list that holds the podcast of
\* URL a and another, the second being selected
C34_Witness ==
    /\ AppRuns
    /\ applied.fn \in {"add_podcast", "handle_pending_events"}
    /\ applied.given \in {<<P_a_slash>>, <<Ok([kind |-> "PodcastReadyForApp", podcast |-> P_a_slash])>>}
    /\ app.podcasts = <<P_a, P_c>>
    /\ app.selected_podcast_index = Some(1)

\* select_next_podcast has just run, called directly or by the Down key in
\* the podcasts panel; select_prev_podcast likewise, by the Up key
NextPodcastRan ==
    \/ applied.fn = "select_next_podcast"
    \/ applied.fn = "on_key" /\ applied.given = <<"Down">> /\ app.focused_panel = "Podcasts"

PrevPodcastRan ==
    \/ applied.fn = "select_prev_podcast"
    \/ applied.fn = "on_key" /\ applied.given = <<"Up">> /\ app.focused_panel = "Podcasts"

PodcastIndexWas == applied.was[1]
EpisodeIndexWas == applied.was[2]

(* C37: the App has no selected podcast exactly when its list is empty,    *)
(* and an index it has selected is below the length of the list; on a      *)
(* list that is not empty select_next_podcast leaves the index one higher, *)
(* or where it was if it was the last, and select_prev_podcast one lower,  *)
(* or where it was if it was the first.                                    *)
C37_PodcastSelectionInRange ==
    AppRuns =>
        /\ app.selected_podcast_index = None <=> app.podcasts = <<>>
        /\ IsSome(app.selected_podcast_index) =>
              Unwrap(app.selected_podcast_index) \in 0..(Len(app.podcasts) - 1)
        /\ (NextPodcastRan /\ IsSome(PodcastIndexWas)) =>
              app.selected_podcast_index =
                 Some(IF Unwrap(PodcastIndexWas) = Len(app.podcasts) - 1
                      THEN Unwrap(PodcastIndexWas)
                      ELSE Unwrap(PodcastIndexWas) + 1)
        /\ (PrevPodcastRan /\ IsSome(PodcastIndexWas)) =>
              app.selected_podcast_index =
                 Some(IF Unwrap(PodcastIndexWas) = 0
                      THEN 0
                      ELSE Unwrap(PodcastIndexWas) - 1)

\* select_next_podcast has run with the last of three podcasts selected
C37_Witness ==
    /\ AppRuns
    /\ applied.fn = "select_next_podcast"
    /\ Len(app.podcasts) = 3
    /\ PodcastIndexWas = Some(2)
    /\ app.selected_podcast_index = Some(2)

\* the number of episodes of the selected podcast, 0 if none is selected
SelectedEpisodeCount ==
    IF IsSome(app.selected_podcast_index)
       /\ Unwrap(app.selected_podcast_index) < Len(app.podcasts)
    THEN app.podcasts[Unwrap(app.selected_podcast_index) + 1].episodes
    ELSE 0

---------------------------------------------------------------------------
(* The files and events of a batch *)

\* the calls of this kind among the effects of a step
CallsOf(step_calls, op) == {i \in DOMAIN step_calls : step_calls[i].op = op}

\* sub-chain s has saved: its Save was given an Ok accumulator and returned Ok
HasSaved(s) ==
    \E k \in DOMAIN invoked[s] : SucceededAt(invoked[s], k, "interpret_save")

\* the steps of sub-chain s that were a Save
SavesOf(s) == {k \in DOMAIN invoked[s] : invoked[s][k].method = "interpret_save"}

\* the batch in flight is the first of the chain and no Save went before it,
\* so that every event there is comes from the batch
FirstBatchInFlight ==
    /\ BatchInFlight
    /\ \A k \in DOMAIN invoked[Main] :
          invoked[Main][k].method \notin {"interpret_process_opml_entries", "interpret_save"}

(* C35: in a batch, a step of a sub-chain writes a file or sends an event  *)
(* only if it is the Save of a sub-chain whose EvalUrl and whose Download  *)
(* have succeeded, and the podcast written and sent has the feed URL of    *)
(* the entry; the step sends one event if it has written the file and      *)
(* none otherwise, so that with a subscriber the events of the batch are   *)
(* as many as the sub-chains whose Save has written its file; and no       *)
(* sub-chain saves twice.                                                  *)
C35_BatchFilesAndEvents ==
    /\ [][\A s \in SubTasks :
            Returns(s) =>
                /\ (CallsOf(calls'[s], "WRITE") # {} \/ CallsOf(calls'[s], "PUBLISH") # {}) =>
                      /\ Last(invoked'[s]).method = "interpret_save"
                      /\ Len(invoked'[s]) = 3
                      /\ SucceededAt(invoked'[s], 1, "interpret_eval_url")
                      /\ SucceededAt(invoked'[s], 2, "interpret_download")
                      /\ \A i \in CallsOf(calls'[s], "WRITE") \cup CallsOf(calls'[s], "PUBLISH") :
                            calls'[s][i].arg.url = ChainUrl(s)
                /\ Cardinality(CallsOf(calls'[s], "PUBLISH")) =
                      IF WroteFile(calls'[s]) THEN 1 ELSE 0
                /\ SaveWrites(s) <=> SucceededAt(invoked'[s], Len(invoked'[s]), "interpret_save")
                /\ Len(events') = Len(events) +
                      (IF WroteFile(calls'[s]) /\ receivers > 0 THEN 1 ELSE 0)]_vars
    /\ [](BatchInFlight => \A s \in SubTasks : Cardinality(SavesOf(s)) <= 1)
    /\ [](FirstBatchInFlight =>
            /\ receivers > 0 =>
                  Len(events) = Cardinality({s \in SubTasks : HasSaved(s)})
            /\ \A i \in DOMAIN events :
                  \E s \in SubTasks : HasSaved(s) /\ events[i].podcast.url = ChainUrl(s))

\* of the two sub-chains of a batch one has saved and one has failed before
\* its Save; there is one event
C35_Witness ==
    /\ FirstBatchInFlight
    /\ receivers > 0
    /\ \A s \in SubTasks : phase[s] = "returned"
    /\ HasSaved(1)
    /\ ~HasSaved(2)
    /\ ~SucceededAt(invoked[2], 2, "interpret_download")
    /\ Len(events) = 1

---------------------------------------------------------------------------
(* command_interpreters.rs: interpret_eval_url, written in one piece *)

\* lines 57-63: the header looked up and compared
HeadAccepts(headers) ==
    /\ "content-type" \in DOMAIN headers
    /\ LET ct_lower == to_lowercase(headers["content-type"]) IN
       \/ contains(ct_lower, <<"a","p","p","l","i","c","a","t","i","o","n","/","r","s","s","+","x","m","l">>)
       \/ contains(ct_lower, <<"a","p","p","l","i","c","a","t","i","o","n","/","a","t","o","m","+","x","m","l">>)
       \/ contains(ct_lower, <<"a","p","p","l","i","c","a","t","i","o","n","/","x","m","l">>)
       \/ contains(ct_lower, <<"t","e","x","t","/","x","m","l">>)

\* lines 89-115: the partial GET, the final attempt
InlinedPartialGet(pipeline_data, url_to_eval, partial_resp) ==
    IF partial_resp.ok
    THEN IF \/ contains(to_lowercase(partial_resp.val), <<"<","r","s","s">>)
            \/ contains(to_lowercase(partial_resp.val), <<"<","f","e","e","d">>)
         THEN Ok([pipeline_data EXCEPT !.last_evaluated_url = Some(url_to_eval),
                                       !.current_podcast = None])
         ELSE Err(EvaluationFailed(
                "URL content (first 4KB) of '{}' doesn't appear to be a valid RSS/Atom feed.",
                <<url_to_eval>>))
    ELSE Err(EvaluationFailedWithSource("Failed to fetch partial content for URL '{}'",
                                        <<url_to_eval>>, partial_resp.err))

\* lines 22-117
interpret_eval_url_inlined(url_to_eval, current_acc, head_resp, partial_resp) ==
    IF ~current_acc.ok THEN StepResult(current_acc, <<>>)
    ELSE
    LET pipeline_data == current_acc.val
        parsed_url == UrlParse(url_to_eval)
        head_call == Call("HEAD", url_to_eval, <<>>, head_resp)
        partial_call == Call("PARTIAL_GET", url_to_eval, <<0, 4095>>, partial_resp)
    IN
    IF ~parsed_url.ok
    THEN StepResult(Err(EvaluationFailed("Invalid URL format: {}", <<url_to_eval>>)), <<>>)
    ELSE IF parsed_url.val.scheme # "http" /\ parsed_url.val.scheme # "https"
    THEN StepResult(Err(EvaluationFailed("Invalid URL scheme: {}. Only http/https supported",
                                         <<parsed_url.val.scheme>>)), <<>>)
    ELSE IF head_resp.ok /\ HeadAccepts(head_resp.val)
    THEN StepResult(Ok([pipeline_data EXCEPT !.last_evaluated_url = Some(url_to_eval),
                                             !.current_podcast = None]),
                    <<head_call>>)
    ELSE StepResult(InlinedPartialGet(pipeline_data, url_to_eval, partial_resp),
                    <<head_call, partial_call>>)

\* the accumulators an EvalUrl can be given
EvalAccs ==
    {Ok(DefaultPipelineData),
     Ok(PipelineData(Some(U_https), Some(create_podcast([title |-> "Test Podcast", items |-> 2],
                                                        U_http).val), None)),
     Err(EvaluationFailed("an earlier chain failed", <<>>))}

EvalInit ==
    /\ chain = <<>> /\ pc = <<>> /\ acc = <<>> /\ initial_accumulator = <<>>
    /\ phase = <<>> /\ invoked = <<>> /\ calls = <<>> /\ held = <<>>
    /\ join_results = <<>> /\ files = {} /\ events = <<>> /\ receivers = 0
    /\ cli = NotMain /\ wire = NoExchange
    /\ app = NoApp /\ scroll = NoScroll
    /\ \E url \in Urls \cup {U_under}, current_acc \in EvalAccs,
          head_resp \in HeadOutcomes, partial_resp \in PartialOutcomes :
          applied = [fn |-> "interpret_eval_url", url |-> url, current_acc |-> current_acc,
                     head_resp |-> head_resp, partial_resp |-> partial_resp,
                     results |-> <<>>]

\* the two interpreters given the same command, accumulator and fetcher
EvalUrlBoth ==
    /\ applied.results = <<>>
    /\ applied' = [applied EXCEPT !.results =
          <<[helpers |-> interpret_eval_url(applied.url, applied.current_acc,
                                            applied.head_resp, applied.partial_resp),
             inlined |-> interpret_eval_url_inlined(applied.url, applied.current_acc,
                                                    applied.head_resp, applied.partial_resp)]>>]
    /\ UNCHANGED <<chain, pc, acc, initial_accumulator, phase, invoked, calls, held,
                   join_results, files, events, receivers, cli, wire, app, scroll>>

EvalNext == EvalUrlBoth

EvalSpec == EvalInit /\ [][EvalNext]_vars

---------------------------------------------------------------------------
(* The two interpret_eval_url side by side *)

BothEvaluated ==
    applied # NoCall /\ applied.fn = "interpret_eval_url" /\ applied.results # <<>>
ByHelpers == applied.results[1].helpers
ByInlined == applied.results[1].inlined

(* C36: given the same URL, accumulator, HEAD answer and partial GET       *)
(* answer, the interpret_eval_url built on the helpers and the one written *)
(* in one piece both return Ok or both return an error, make the same      *)
(* fetcher calls in the same order, and when they return Ok return the     *)
(* same PipelineData.                                                      *)
C36_EvalUrlImplementationsAgree ==
    BothEvaluated =>
        /\ ByHelpers.acc.ok <=> ByInlined.acc.ok
        /\ ByHelpers.calls = ByInlined.calls
        /\ ByHelpers.acc.ok => ByHelpers.acc.val = ByInlined.acc.val

\* both accept a URL on the partial GET after a HEAD that failed, from an
\* accumulator that held a podcast
C36_Witness ==
    /\ BothEvaluated
    /\ applied.current_acc.ok
    /\ applied.current_acc.val.current_podcast # None
    /\ ~applied.head_resp.ok
    /\ ByInlined.acc.ok
    /\ Len(ByInlined.calls) = 2
    /\ ByHelpers.acc.val.current_podcast = None

=============================================================================
